---- MODULE Spec2Model ----
(***************************************************************************)
(* A model of scripts-orchestrator: Orchestrator.run, the recursive        *)
(* Orchestrator.executeCommand and the services they call                  *)
(* (ProcessManager registry, cleanup, HealthCheck probes, GitCache).       *)
(*                                                                         *)
(* The program is single-threaded JavaScript: a block of code runs from    *)
(* the event that resumes it to its next await.  ctl names who holds the   *)
(* thread: Main (the body of run), a slot (the top-level executeCommand    *)
(* call of that task, with its recursive calls on stack[slot]) or Idle     *)
(* (the event loop is waiting for a child exit, a probe answer, a timer or *)
(* a settled promise).  Events fire only when ctl = Idle.                  *)
(* Durations (Date.now() - startTime) are kept as 0 for a call that        *)
(* returned without waiting for an external event (a child exit, a probe   *)
(* answer, a timer) and as 1 for a call that waited for one.               *)
(***************************************************************************)
EXTENDS Integers, Sequences, FiniteSets, TLC

\* ---------------------------------------------------------------- bounds
MaxFeatures == 2      \* how many non-default settings one configuration combines
MaxAttempts == 2      \* attempts of a retrying task
MaxProbes   == 2      \* health_check.max_attempts of a task that declares a url
MaxPolls    == 2      \* interval ticks that fit under the termination-wait ceiling
MaxRecords  == 2      \* records in the registry of a pass followed on its own
MaxDepth    == 4      \* nesting of executeCommand calls the model follows

\* ------------------------------------------------------------ the inputs
Nodes    == 1..6      \* the task objects of the configuration
TopNodes == 1..4      \* those listed at top level (1,2 | 3 | 4 in the phases form)
Null     == "null"
Main     == 0
Idle     == -1

Names == {"a", "a x", "b", "c", "d", "e", "f", "r"}

Features ==
  { "sequential", "legacy", "startP2", "startNope",
    "allowP2", "allowP3", "allowNope", "optionalP2",
    "depDisabled", "depUrl", "depBackground", "nameCycle", "refCycle",
    "topDisabled", "retry", "retryCommand", "shouldRetry",
    "background", "dupName", "topUrl", "killCommand", "bgTrio", "sameWord" }

Compatible(F) == ~({"startP2", "startNope"} \subseteq F)

\* the command name of task object n
CommandOf(F, n) ==
  CASE n = 1 -> "a"
    [] n = 2 -> IF "sameWord" \in F THEN "a x" ELSE "b"
    [] n = 3 -> IF F \cap {"dupName", "bgTrio"} # {} THEN "b" ELSE "c"
    [] n = 4 -> "d"
    [] n = 5 -> IF "nameCycle" \in F THEN "a" ELSE "e"
    [] OTHER -> "f"

\* one task object (the fields executeCommand destructures)
TaskOf(F, n) ==
  [ command      |-> CommandOf(F, n),
    dependencies |-> CASE n = 1 -> <<5, 6>>
                       [] n = 6 /\ "refCycle" \in F -> <<1>>
                       [] OTHER -> <<>>,
    background   |-> \/ (n \in {2, 3} /\ "background" \in F)
                    \/ (n = 5 /\ "depBackground" \in F)
                    \/ (n \in {2, 3, 4} /\ "bgTrio" \in F),
    status       |-> IF (n = 2 /\ "topDisabled" \in F) \/ (n = 5 /\ "depDisabled" \in F)
                     THEN "disabled" ELSE "enabled",
    attempts     |-> IF n = 2 /\ F \cap {"retry", "retryCommand", "shouldRetry"} # {}
                     THEN MaxAttempts ELSE 1,
    retry_command |-> IF n = 2 /\ "retryCommand" \in F THEN "r" ELSE Null,
    should_retry |-> n = 2 /\ "shouldRetry" \in F,
    health_check |-> [ url          |-> (n = 1 /\ "topUrl" \in F) \/ (n = 5 /\ "depUrl" \in F),
                       max_attempts |-> MaxProbes ],
    kill_command |-> IF n \in {1, 2, 3, 5} /\ "killCommand" \in F THEN "k" ELSE Null ]

PhasesOf(F) ==
  << [name |-> "p1", optional |-> FALSE,             parallel |-> <<1, 2>>],
     [name |-> "p2", optional |-> "optionalP2" \in F, parallel |-> <<3>>],
     [name |-> "p3", optional |-> FALSE,             parallel |-> <<4>>] >>

\* the configuration: the legacy array of tasks, or {phases: [...]}
ConfigOf(F) ==
  IF "legacy" \in F
  THEN [isArray |-> TRUE,  array |-> <<1, 2, 3, 4>>, phases |-> <<>>]
  ELSE [isArray |-> FALSE, array |-> <<>>,           phases |-> PhasesOf(F)]

StartPhaseOf(F) ==
  CASE "startP2" \in F   -> "p2"
    [] "startNope" \in F -> "nope"
    [] OTHER             -> Null

\* the --phases allow-list: null when the flag is absent
AllowListOf(F) ==
  [ isNull |-> F \cap {"allowP2", "allowP3", "allowNope"} = {},
    list   |-> {"p2" : x \in F \cap {"allowP2"}} \cup {"p3" : x \in F \cap {"allowP3"}}
               \cup {"nope" : x \in F \cap {"allowNope"}} ]

\* should_retry(output): the predicate of the sample configurations retries
\* only on output that shows real test failures
OutputClass == {"flaky", "hard"}
ShouldRetryPred(output) == output = "flaky"

\* ------------------------------------------------------------- the state
VARIABLES
  config, tasks, startPhase, phases, sequential,      \* constructor arguments
  failedCommands, skippedCommands, commandTimings,    \* Orchestrator fields
  backgroundProcessesDetails,                         \* ProcessManager registry
  cacheWritten,                                       \* GitCache: updateCache ran
  shouldSkip, runPc, phaseIdx, batch, idx, results,   \* run(): position and locals
  hasFailures, phaseFailed, startPhaseFound,
  stack, visited, settled,                            \* executeCommand calls per slot
  ctl, exitCode,
  cleanupStarted, cleanupDone,                        \* full cleanup passes
  invoked, ranCnt, probeCnt, hist, phaseLog,          \* history of what was done
  cleanupLog,                                         \* what cleanupProcess did, per record
  sigPc,                                              \* handleSignal: position
  head, tree, revParseOk, statusOk,                   \* the repository and the git queries
  cacheFile,                                          \* the .git-hash-cache file
  gitPc, currentHash,                                 \* GitCache: position and local
  tested,                                             \* (commit, tree) of the successful runs
  hc,                                                 \* HealthCheck.waitForUrl: one call
  cp,                                                 \* cleanupProcess: one call
  pass,                                               \* cleanup / cleanupCommand: one pass
  vp,                                                 \* runCommand, background: one call
  envCall,                                            \* createIsolatedEnvironment: one call
  logFiles                                            \* the log files: whose output they hold

inputs == <<config, tasks, startPhase, phases, sequential>>
orch   == <<failedCommands, skippedCommands, commandTimings>>
runLoc == <<shouldSkip, runPc, phaseIdx, batch, idx, results, hasFailures, phaseFailed, startPhaseFound>>
calls  == <<stack, visited, settled>>
ghost  == <<invoked, ranCnt, probeCnt, hist, phaseLog>>
git    == <<head, tree, revParseOk, statusOk, cacheFile, gitPc, currentHash, tested>>
vars == <<inputs, orch, backgroundProcessesDetails, cacheWritten, runLoc, calls,
          ctl, exitCode, cleanupStarted, cleanupDone, ghost, cleanupLog, sigPc, git, hc, cp, pass, vp, envCall, logFiles>>

NoTiming == -1

\* the Orchestrator and its services after construction, for the settings F
OrchInit(F) ==
  /\ config = ConfigOf(F)
  /\ tasks = [n \in Nodes |-> TaskOf(F, n)]
  /\ startPhase = StartPhaseOf(F)
  /\ phases = AllowListOf(F)
  /\ sequential = ("sequential" \in F)
  /\ failedCommands = <<>>
  /\ skippedCommands = <<>>
  /\ commandTimings = [c \in Names |-> NoTiming]
  /\ backgroundProcessesDetails = <<>>
  /\ cacheWritten = FALSE
  /\ shouldSkip = "unknown"
  /\ runPc = "shouldSkip"
  /\ phaseIdx = 1
  /\ batch = <<>>
  /\ idx = 1
  /\ results = <<>>
  /\ hasFailures = FALSE
  /\ phaseFailed = FALSE
  /\ startPhaseFound = FALSE
  /\ stack = [t \in TopNodes |-> <<>>]
  /\ visited = [t \in TopNodes |-> {}]
  /\ settled = [t \in TopNodes |-> "idle"]
  /\ ctl = Idle
  /\ exitCode = -1
  /\ cleanupStarted = 0
  /\ cleanupDone = 0
  /\ invoked = [n \in Nodes |-> 0]
  /\ ranCnt = [n \in Nodes |-> 0]
  /\ probeCnt = [n \in Nodes |-> 0]
  /\ hist = {}
  /\ phaseLog = [i \in 1..3 |-> "none"]
  /\ cleanupLog = {}
  /\ sigPc = "none"
  /\ logFiles = [f \in Names |-> {}]

Commits == {"h1", "h2"}

\* a repository at commit h1 with a clean tree, git working, no cache file
GitInit ==
  /\ head = "h1" /\ tree = "clean"
  /\ revParseOk = TRUE /\ statusOk = TRUE
  /\ cacheFile = Null
  /\ gitPc = "idle" /\ currentHash = Null
  /\ tested = {}

\* no pass, no background runCommand, no createIsolatedEnvironment followed
\* on its own
PassIdle == pass = [pc |-> "idle"]
VpIdle == vp = [pc |-> "idle"]
EnvIdle == envCall = [pc |-> "idle"]

\* no call of cleanupProcess followed on its own
CpIdle ==
  cp = [pc |-> "idle", r |-> [command |-> "b", url |-> FALSE, startedByScript |-> FALSE,
                               kill_command |-> Null],
        ops |-> <<>>, polls |-> 0, killOk |-> "unknown", alive |-> "unknown",
        gone |-> "unknown", killErr |-> "unknown"]

\* no call of waitForUrl followed on its own
HcIdle ==
  hc = [pc |-> "idle", maxAttempts |-> 1, attempt |-> 1, log |-> <<>>, ret |-> "none"]

Init ==
  /\ \E F \in SUBSET Features :
       /\ Cardinality(F) <= MaxFeatures
       /\ Compatible(F)
       /\ OrchInit(F)
  /\ GitInit
  /\ HcIdle
  /\ CpIdle
  /\ PassIdle /\ VpIdle /\ EnvIdle


\* ------------------------------------------------------------- helpers
Top(t) == stack[t][Len(stack[t])]
Pop(s) == SubSeq(s, 1, Len(s) - 1)
SetTop(t, fr) == [stack EXCEPT ![t] = [@ EXCEPT ![Len(@)] = fr]]
BoolStr(b) == IF b THEN "true" ELSE "false"
SeqToSet(s) == {s[i] : i \in 1..Len(s)}
CommandsOf(list) == [i \in 1..Len(list) |-> tasks[list[i]].command]

\* one visited set for all the top-level calls
VisitedOf_Global(t) == 1
\* lines 54, 261, 270, 324, 334: run() passes no visited argument, so the
\* top-level call of slot t gets its own new Set()
VisitedOf(t) == t

\* a fresh activation of executeCommand(tasks[n], ...); waited: an external
\* event happened since startTime = Date.now(); pre200: the pre-probe of the
\* task's url was answered with status 200
NewFrame(n) ==
  [ node |-> n, pc |-> "entry", depIdx |-> 1, attempt |-> 1, probe |-> 0,
    waited |-> FALSE, ret |-> "none", ran |-> 0, called |-> 0, probed |-> 0,
    okDeps |-> 0, success |-> FALSE, output |-> "none", cmds |-> <<>>,
    pre200 |-> "none", procs |-> <<>>, src |-> {} ]

\* the top activation when an external event resumes it
Resumed(t) == [Top(t) EXCEPT !.waited = TRUE]

\* who runs when a slot reaches an await: run() if it is still mapping the
\* tasks of the batch to calls, else the event loop
Yield == IF runPc = "launch" THEN Main ELSE Idle

\* a turn of the event loop: no callback is running and the process lives
Turn == ctl = Idle /\ runPc # "exited"

\* process.exit(code)
Exit(code) ==
  /\ runPc' = "exited"
  /\ exitCode' = code
  /\ ctl' = Idle

\* phase.parallel.forEach(({command}) => { skippedCommands.push(command);
\*                                          commandTimings.set(command, 0) })
SkipDuration == 0
\* a skip block that sets the duration but forgets the skippedCommands.push
MarkPhaseSkipped_NoRecord(phase) ==
  /\ skippedCommands' = skippedCommands
  /\ commandTimings' = [c \in Names |->
        IF c \in SeqToSet(CommandsOf(phase.parallel)) THEN SkipDuration
        ELSE commandTimings[c]]
MarkPhaseSkipped(phase) ==
  /\ skippedCommands' = skippedCommands \o CommandsOf(phase.parallel)
  /\ commandTimings' = [c \in Names |->
        IF c \in SeqToSet(CommandsOf(phase.parallel)) THEN SkipDuration
        ELSE commandTimings[c]]

\* ------------------------------------------------------ Orchestrator.run
\* a loop that ignores the start phase
BeforeStartPhase_Never(phase) == FALSE
\* line 283: the phase lies before the start phase
BeforeStartPhase(phase) ==
  startPhase # Null /\ ~startPhaseFound /\ phase.name # startPhase

\* line 283-286: startPhaseFound after the start-phase check of this phase
FoundAfter(phase) ==
  startPhaseFound \/ (startPhase # Null /\ phase.name = startPhase)

\* line 298: an optional phase that was not requested
OptionalNotRequested(phase) ==
  phase.optional = TRUE /\ ~phases.isNull /\ phase.name \notin phases.list

\* results.every(result => !result) in place of results.some
SomeFalse_Every(res) == \A i \in 1..Len(res) : res[i] = FALSE
\* line 339: results.some(result => !result)
SomeFalse(res) == \E i \in 1..Len(res) : res[i] = FALSE

\* lines 244-248: await shouldSkipExecution(); true ends the process with 0
ShouldSkipResolved ==
  /\ ctl = Idle /\ runPc = "shouldSkip"
  /\ \E skip \in BOOLEAN :
       /\ shouldSkip' = BoolStr(skip)
       /\ IF skip
          THEN /\ Exit(0)
               /\ UNCHANGED <<batch, idx, results>>
          ELSE /\ ctl' = Main
               /\ runPc' = IF config.isArray THEN "launch" ELSE "phaseTop"
               /\ batch' = IF config.isArray THEN config.array ELSE <<>>
               /\ idx' = 1
               /\ results' = <<>>
               /\ UNCHANGED exitCode
  /\ UNCHANGED <<inputs, orch, backgroundProcessesDetails, cacheWritten, phaseIdx,
                 hasFailures, phaseFailed, startPhaseFound, calls, cleanupStarted, cleanupDone, ghost,
                 sigPc, git, cleanupLog, hc, cp, pass, vp, envCall, logFiles>>

\* lines 283-295: a phase before the start phase is marked skipped
PhaseSkipBeforeStart ==
  /\ ctl = Main /\ runPc = "phaseTop" /\ phaseIdx <= Len(config.phases)
  /\ LET phase == config.phases[phaseIdx] IN
     /\ BeforeStartPhase(phase)
     /\ MarkPhaseSkipped(phase)
  /\ phaseIdx' = phaseIdx + 1
  /\ phaseLog' = [phaseLog EXCEPT ![phaseIdx] = "beforeStart"]
  /\ UNCHANGED <<inputs, shouldSkip, failedCommands, backgroundProcessesDetails, cacheWritten,
                 runPc, batch, idx, results, hasFailures, phaseFailed, startPhaseFound,
                 calls, ctl, exitCode, cleanupStarted, cleanupDone, invoked, ranCnt, probeCnt, hist,
                 sigPc, git, cleanupLog, hc, cp, pass, vp, envCall, logFiles>>

\* lines 297-306: an optional phase that was not requested is marked skipped
PhaseSkipOptional ==
  /\ ctl = Main /\ runPc = "phaseTop" /\ phaseIdx <= Len(config.phases)
  /\ LET phase == config.phases[phaseIdx] IN
     /\ ~BeforeStartPhase(phase)
     /\ OptionalNotRequested(phase)
     /\ startPhaseFound' = FoundAfter(phase)
     /\ MarkPhaseSkipped(phase)
  /\ phaseIdx' = phaseIdx + 1
  /\ phaseLog' = [phaseLog EXCEPT ![phaseIdx] = "optional"]
  /\ UNCHANGED <<inputs, shouldSkip, failedCommands, backgroundProcessesDetails, cacheWritten,
                 runPc, batch, idx, results, hasFailures, phaseFailed,
                 calls, ctl, exitCode, cleanupStarted, cleanupDone, invoked, ranCnt, probeCnt, hist,
                 sigPc, git, cleanupLog, hc, cp, pass, vp, envCall, logFiles>>

\* lines 308-315: after a failed phase every phase is marked skipped
PhaseSkipAfterFailure ==
  /\ ctl = Main /\ runPc = "phaseTop" /\ phaseIdx <= Len(config.phases)
  /\ LET phase == config.phases[phaseIdx] IN
     /\ ~BeforeStartPhase(phase)
     /\ ~OptionalNotRequested(phase)
     /\ phaseFailed
     /\ startPhaseFound' = FoundAfter(phase)
     /\ MarkPhaseSkipped(phase)
  /\ phaseIdx' = phaseIdx + 1
  /\ phaseLog' = [phaseLog EXCEPT ![phaseIdx] = "afterFailure"]
  /\ UNCHANGED <<inputs, shouldSkip, failedCommands, backgroundProcessesDetails, cacheWritten,
                 runPc, batch, idx, results, hasFailures, phaseFailed,
                 calls, ctl, exitCode, cleanupStarted, cleanupDone, invoked, ranCnt, probeCnt, hist,
                 sigPc, git, cleanupLog, hc, cp, pass, vp, envCall, logFiles>>

\* lines 317-337: the phase is executed
PhaseStart ==
  /\ ctl = Main /\ runPc = "phaseTop" /\ phaseIdx <= Len(config.phases)
  /\ LET phase == config.phases[phaseIdx] IN
     /\ ~BeforeStartPhase(phase)
     /\ ~OptionalNotRequested(phase)
     /\ ~phaseFailed
     /\ startPhaseFound' = FoundAfter(phase)
     /\ batch' = phase.parallel
  /\ idx' = 1
  /\ results' = <<>>
  /\ runPc' = "launch"
  /\ phaseLog' = [phaseLog EXCEPT ![phaseIdx] = "executed"]
  /\ UNCHANGED <<inputs, shouldSkip, orch, backgroundProcessesDetails, cacheWritten, phaseIdx,
                 hasFailures, phaseFailed, calls, ctl, exitCode,
                 cleanupStarted, cleanupDone, invoked, ranCnt, probeCnt, hist,
                 sigPc, git, cleanupLog, hc, cp, pass, vp, envCall, logFiles>>

\* line 281: the loop over the phases ends
PhasesDone ==
  /\ ctl = Main /\ runPc = "phaseTop" /\ phaseIdx > Len(config.phases)
  /\ runPc' = "validate"
  /\ UNCHANGED <<inputs, shouldSkip, orch, backgroundProcessesDetails, cacheWritten, phaseIdx,
                 batch, idx, results, hasFailures, phaseFailed, startPhaseFound,
                 calls, ctl, exitCode, cleanupStarted, cleanupDone, ghost,
                 sigPc, git, cleanupLog, hc, cp, pass, vp, envCall, logFiles>>

\* lines 261, 270, 324, 334: this.executeCommand(commandConfig) with a new
\* visited set; sequential mode awaits it, parallel mode goes on mapping
Launch ==
  /\ ctl = Main /\ runPc = "launch"
  /\ LET n == batch[idx] IN
     /\ stack' = [stack EXCEPT ![n] = <<NewFrame(n)>>]
     /\ visited' = [visited EXCEPT ![VisitedOf(n)] = {}]
     /\ settled' = [settled EXCEPT ![n] = "pending"]
     /\ invoked' = [invoked EXCEPT ![n] = @ + 1]
     /\ ctl' = n
  /\ runPc' = IF sequential THEN "awaitTask"
              ELSE IF idx < Len(batch) THEN "launch" ELSE "awaitAll"
  /\ idx' = IF sequential THEN idx ELSE idx + 1
  /\ UNCHANGED <<inputs, shouldSkip, orch, backgroundProcessesDetails, cacheWritten, phaseIdx,
                 batch, results, hasFailures, phaseFailed, startPhaseFound,
                 exitCode, cleanupStarted, cleanupDone, ranCnt, probeCnt, hist,
                 phaseLog,
                 sigPc, git, cleanupLog, hc, cp, pass, vp, envCall, logFiles>>

\* a sequential loop without the break
NextInBatch_NoBreak(result) == idx < Len(batch)
\* lines 260-266, 323-329: the for loop goes on to the next task unless the
\* result was false (break) or the batch is exhausted
NextInBatch(result) == result /\ idx < Len(batch)

\* lines 261-266, 324-329: the awaited task settled; a failure breaks the loop
TaskAwaited ==
  /\ ctl = Idle /\ runPc = "awaitTask"
  /\ settled[batch[idx]] \in {"true", "false"}
  /\ LET result == settled[batch[idx]] = "true" IN
     /\ results' = Append(results, result)
     /\ IF NextInBatch(result)
        THEN /\ idx' = idx + 1
             /\ runPc' = "launch"
        ELSE /\ idx' = idx
             /\ runPc' = "batchDone"
  /\ ctl' = Main
  /\ UNCHANGED <<inputs, shouldSkip, orch, backgroundProcessesDetails, cacheWritten, phaseIdx,
                 batch, hasFailures, phaseFailed, startPhaseFound, calls, exitCode, cleanupStarted, cleanupDone, ghost,
                 sigPc, git, cleanupLog, hc, cp, pass, vp, envCall, logFiles>>

\* an await that gives up on the first failure, the other promises pending
PromiseAll_FailFast(b) ==
  [ done    |-> \/ \A i \in 1..Len(b) : settled[b[i]] \in {"true", "false"}
                \/ \E i \in 1..Len(b) : settled[b[i]] = "false",
    results |-> [i \in 1..Len(b) |-> settled[b[i]] = "true"] ]
\* an await that resumes as soon as one promise settled and takes the
\* promises still pending for successes
PromiseAll_First(b) ==
  [ done    |-> \E i \in 1..Len(b) : settled[b[i]] \in {"true", "false"},
    results |-> [i \in 1..Len(b) |-> settled[b[i]] # "false"] ]
\* Promise.all(tasks), lines 269-272 and 332-336: settles when every promise
\* has, with their values in the order of the array
PromiseAll(b) ==
  [ done    |-> \A i \in 1..Len(b) : settled[b[i]] \in {"true", "false"},
    results |-> [i \in 1..Len(b) |-> settled[b[i]] = "true"] ]

\* lines 272, 336: results = await Promise.all(tasks)
AllSettled ==
  /\ ctl = Idle /\ runPc = "awaitAll"
  /\ PromiseAll(batch).done
  /\ results' = PromiseAll(batch).results
  /\ runPc' = "batchDone"
  /\ ctl' = Main
  /\ UNCHANGED <<inputs, shouldSkip, orch, backgroundProcessesDetails, cacheWritten, phaseIdx,
                 batch, idx, hasFailures, phaseFailed, startPhaseFound, calls, exitCode, cleanupStarted, cleanupDone, ghost,
                 sigPc, git, cleanupLog, hc, cp, pass, vp, envCall, logFiles>>

\* lines 263-265, 273 (array form) and 339-347 (phases form)
BatchDone ==
  /\ ctl = Main /\ runPc = "batchDone"
  /\ hasFailures' = (hasFailures \/ SomeFalse(results))
  /\ IF config.isArray
     THEN /\ runPc' = "validate"
          /\ UNCHANGED <<phaseFailed, phaseIdx>>
     ELSE /\ phaseFailed' = (phaseFailed \/ SomeFalse(results))
          /\ phaseIdx' = phaseIdx + 1
          /\ runPc' = "phaseTop"
  /\ UNCHANGED <<inputs, shouldSkip, orch, backgroundProcessesDetails, cacheWritten,
                 batch, idx, results, startPhaseFound, calls, ctl, exitCode, cleanupStarted, cleanupDone, ghost,
                 sigPc, git, cleanupLog, hc, cp, pass, vp, envCall, logFiles>>

\* line 352
StartPhaseMissing == startPhase # Null /\ ~startPhaseFound
\* lines 360-362: the names of the allow-list that match no phase
InvalidPhases == phases.list \ {config.phases[i].name : i \in 1..Len(config.phases)}

\* lines 352-356: an unmatched start phase ends the process with 1
StartPhaseNotFound ==
  /\ ctl = Main /\ runPc = "validate"
  /\ StartPhaseMissing /\ ~config.isArray
  /\ Exit(1)
  /\ UNCHANGED <<inputs, shouldSkip, orch, backgroundProcessesDetails, cacheWritten, phaseIdx,
                 batch, idx, results, hasFailures, phaseFailed, startPhaseFound,
                 calls, cleanupStarted, cleanupDone, ghost,
                 sigPc, git, cleanupLog, hc, cp, pass, vp, envCall, logFiles>>

\* lines 359-366: an allow-list name that matches no phase ends the process with 1
InvalidPhasesExit ==
  /\ ctl = Main /\ runPc = "validate"
  /\ ~StartPhaseMissing /\ ~config.isArray
  /\ ~phases.isNull /\ InvalidPhases # {}
  /\ Exit(1)
  /\ UNCHANGED <<inputs, shouldSkip, orch, backgroundProcessesDetails, cacheWritten, phaseIdx,
                 batch, idx, results, hasFailures, phaseFailed, startPhaseFound,
                 calls, cleanupStarted, cleanupDone, ghost,
                 sigPc, git, cleanupLog, hc, cp, pass, vp, envCall, logFiles>>

\* lines 353, 360 with the array form: this.config.phases is undefined, the
\* TypeError is caught at line 398 and the catch block calls cleanup()
ValidateThrows ==
  /\ ctl = Main /\ runPc = "validate"
  /\ config.isArray /\ (StartPhaseMissing \/ ~phases.isNull)
  /\ runPc' = "catchCleanup"
  /\ cleanupStarted' = cleanupStarted + 1
  /\ ctl' = Idle
  /\ UNCHANGED <<inputs, shouldSkip, orch, backgroundProcessesDetails, cacheWritten, phaseIdx,
                 batch, idx, results, hasFailures, phaseFailed, startPhaseFound,
                 calls, exitCode, cleanupDone, ghost,
                 sigPc, git, cleanupLog, hc, cp, pass, vp, envCall, logFiles>>

\* a final status that leaves the skipped tasks out
FinalHasFailures_IgnoreSkipped == hasFailures \/ Len(failedCommands) > 0
\* lines 369-371
FinalHasFailures ==
  hasFailures \/ Len(failedCommands) > 0 \/ Len(skippedCommands) > 0

\* lines 368-374: the final status, then the 1000 ms delay
FinalStatus ==
  /\ ctl = Main /\ runPc = "validate"
  /\ ~StartPhaseMissing
  /\ phases.isNull \/ (~config.isArray /\ InvalidPhases = {})
  /\ hasFailures' = FinalHasFailures
  /\ runPc' = "delay"
  /\ ctl' = Idle
  /\ UNCHANGED <<inputs, shouldSkip, orch, backgroundProcessesDetails, cacheWritten, phaseIdx,
                 batch, idx, results, phaseFailed, startPhaseFound,
                 calls, exitCode, cleanupStarted, cleanupDone, ghost,
                 sigPc, git, cleanupLog, hc, cp, pass, vp, envCall, logFiles>>

\* lines 374-380: the delay elapsed; summarizeResults(); cleanup() is called
DelayElapsed ==
  /\ ctl = Idle /\ runPc = "delay"
  /\ runPc' = "cleanup"
  /\ cleanupStarted' = cleanupStarted + 1
  /\ UNCHANGED <<inputs, shouldSkip, orch, backgroundProcessesDetails, cacheWritten, phaseIdx,
                 batch, idx, results, hasFailures, phaseFailed, startPhaseFound,
                 calls, ctl, exitCode, cleanupDone, ghost,
                 sigPc, git, cleanupLog, hc, cp, pass, vp, envCall, logFiles>>

\* lines 217-232: the status summarizeResults shows for a command of
\* allCommands
SummaryStatus(command) ==
  IF command \in SeqToSet(failedCommands) THEN "failed"
  ELSE IF command \in SeqToSet(skippedCommands) THEN "skipped"
  ELSE "success"

\* lines 376-380: summarizeResults() has printed the summary; the lists it
\* read stay as they are until the exit
Summarized == runPc \in {"cleanup", "updateCache"}

\* ---------------------------------------------- ProcessManager.cleanupProcess
\* what the environment answers during the sequence of one record: whether
\* the kill command succeeded, whether process.kill(pgid, 0) found the process,
\* whether the URL still answered 200 after the termination, whether lsof
\* found a process on the port
CleanupOutcomes ==
  [killOk : BOOLEAN, alive : BOOLEAN, urlUp : BOOLEAN, portFound : BOOLEAN]

\* lib/index.js 355-371: the custom kill command, when there is one
KillCommandStep(r) == IF r.kill_command # Null THEN <<"kill_command">> ELSE <<>>

\* a sequence that goes on to the signals after a successful kill command
KillSucceeded_Ignored(r, killOk) == FALSE
\* lib/index.js 356-361: if (kill_command) { ... if (result.success) return }
KillSucceeded(r, killOk) == r.kill_command # Null /\ killOk

\* a sequence that signals a process that is gone
AlreadyTerminated_Never(alive) == FALSE
\* lib/index.js 375-381: process.kill(pgid, 0) threw: already terminated, return
AlreadyTerminated(alive) == ~alive

\* lib/index.js 429-514: the URL check, the search of the port's processes
\* and their kill
PortStep(r, urlUp, portFound) ==
  IF r.url
  THEN <<"urlCheck">> \o
       (IF urlUp THEN <<"portFind">> \o (IF portFound THEN <<"portKill">> ELSE <<>>)
        ELSE <<>>)
  ELSE <<>>

\* lib/index.js 373-534: the probe, SIGTERM and its wait, the port, SIGKILL
SignalSteps(r, o) ==
  <<"probe">> \o
  (IF AlreadyTerminated(o.alive) THEN <<>>
   ELSE <<"SIGTERM">> \o PortStep(r, o.urlUp, o.portFound) \o <<"SIGKILL">>)

\* a cleanupProcess that treats every record alike
Skipped_Never(r) == FALSE
\* lib/index.js 346-351: if (!startedByScript) return
Skipped(r) == ~r.startedByScript

\* lib/index.js 345-535: the operations cleanupProcess performs for record r
CleanupProcess(r, o) ==
  IF Skipped(r) THEN <<>>
  ELSE IF KillSucceeded(r, o.killOk) THEN KillCommandStep(r)
  ELSE KillCommandStep(r) \o SignalSteps(r, o)

LogEntry(r, ops) ==
  [command |-> r.command, startedByScript |-> r.startedByScript,
   kill_command |-> r.kill_command, url |-> r.url, ops |-> ops]

\* lib/index.js 299-305 and 329-335: the sequences of the records of a pass,
\* for every answer of the environment
RECURSIVE PassLogs(_)
PassLogs(recs) ==
  IF recs = <<>> THEN {{}}
  ELSE { {LogEntry(Head(recs), CleanupProcess(Head(recs), o))} \cup rest :
           o \in CleanupOutcomes, rest \in PassLogs(Tail(recs)) }

\* a run that updates the cache whatever its status
UpdatesCache_Always == TRUE
\* line 386: if (!hasFailures) await this.gitCache.updateCache()
UpdatesCache == ~hasFailures

\* lines 391-397: if (hasFailures) process.exit(1) else process.exit(0)
ExitStatus == IF hasFailures THEN 1 ELSE 0

\* ProcessManager.cleanup, lines 305-307 of lib/index.js, then lines 385-397:
\* the pass settled and the registry is cleared; a run without failures
\* awaits updateCache(), the others exit
CleanupSettled ==
  /\ ctl = Idle /\ runPc = "cleanup"
  /\ \E log \in PassLogs(backgroundProcessesDetails) : cleanupLog' = cleanupLog \cup log
  /\ backgroundProcessesDetails' = <<>>
  /\ cleanupDone' = cleanupDone + 1
  /\ IF UpdatesCache
     THEN /\ runPc' = "updateCache"
          /\ UNCHANGED <<ctl, exitCode>>
     ELSE Exit(ExitStatus)
  /\ UNCHANGED <<inputs, shouldSkip, orch, cacheWritten, phaseIdx,
                 batch, idx, results, hasFailures, phaseFailed, startPhaseFound,
                 calls, cleanupStarted, ghost,
                 sigPc, git, hc, cp, pass, vp, envCall, logFiles>>

\* GitCache.updateCache, lines 177-182 of git-cache.js, then line 396: the
\* hash is written when git resolves it
CacheUpdated ==
  /\ ctl = Idle /\ runPc = "updateCache"
  /\ \E hashResolved \in BOOLEAN : cacheWritten' = hashResolved
  /\ Exit(ExitStatus)
  /\ UNCHANGED <<inputs, shouldSkip, orch, backgroundProcessesDetails, phaseIdx,
                 batch, idx, results, hasFailures, phaseFailed, startPhaseFound,
                 calls, cleanupStarted, cleanupDone, ghost,
                 sigPc, git, cleanupLog, hc, cp, pass, vp, envCall, logFiles>>

\* lines 398-408: the cleanup of the catch block settled
CatchCleanupSettled ==
  /\ ctl = Idle /\ runPc = "catchCleanup"
  /\ \E log \in PassLogs(backgroundProcessesDetails) : cleanupLog' = cleanupLog \cup log
  /\ backgroundProcessesDetails' = <<>>
  /\ cleanupDone' = cleanupDone + 1
  /\ Exit(1)
  /\ UNCHANGED <<inputs, shouldSkip, orch, cacheWritten, phaseIdx,
                 batch, idx, results, hasFailures, phaseFailed, startPhaseFound,
                 calls, cleanupStarted, ghost,
                 sigPc, git, hc, cp, pass, vp, envCall, logFiles>>

\* ------------------------------------------- Orchestrator.executeCommand
\* the call returns v: the activation is popped and its caller (the awaiting
\* parent activation, or the promise of the slot) receives the value
Return(t, fr, v, path) ==
  LET rest == Pop(stack[t]) IN
  /\ stack' = [stack EXCEPT ![t] =
        IF rest = <<>> THEN <<>>
        ELSE [rest EXCEPT ![Len(rest)].ret = BoolStr(v),
                          ![Len(rest)].waited = @ \/ fr.waited]]
  /\ settled' = IF rest = <<>> THEN [settled EXCEPT ![t] = BoolStr(v)] ELSE settled
  /\ hist' = hist \cup {[slot |-> t, node |-> fr.node, path |-> path, result |-> v,
                         ran |-> fr.ran, called |-> fr.called, probed |-> fr.probed,
                         depIdx |-> fr.depIdx, probe |-> fr.probe,
                         attempt |-> fr.attempt, cmds |-> fr.cmds,
                         pre200 |-> fr.pre200]}
  /\ ctl' = Yield

\* Date.now() - startTime
Elapsed(fr) == IF fr.waited THEN 1 ELSE 0

\* this.commandTimings.set(command, Date.now() - startTime)
SetTiming(fr) ==
  [commandTimings EXCEPT ![tasks[fr.node].command] = Elapsed(fr)]

\* a cycle check that never finds the name
InVisited_Never(t, command) == FALSE
\* line 74
InVisited(t, command) == command \in visited[VisitedOf(t)]
\* a status check that never sees "disabled"
IsDisabled_Never(c) == FALSE
\* line 85
IsDisabled(c) == c.status = "disabled"
\* lines 93-94, 123
HasUrl(c) == c.health_check.url
\* a check of the dependency's result that takes every result for success
DependencySuccess_Always(fr) == TRUE
\* lines 114-115: dependencySuccess, the value the awaited call returned
DependencySuccess(fr) == fr.ret = "true"

\* lines 73-81: the name is already on the path
EnterCycle(t) ==
  /\ ctl = t /\ stack[t] # <<>> /\ Top(t).pc = "entry"
  /\ LET fr == Top(t)
         c  == tasks[fr.node] IN
     /\ InVisited(t, c.command)
     /\ failedCommands' = Append(failedCommands, c.command)
     /\ commandTimings' = SetTiming(fr)
     /\ Return(t, fr, FALSE, "cycle")
  /\ UNCHANGED <<inputs, skippedCommands, backgroundProcessesDetails, cacheWritten,
                 runLoc, visited, exitCode, cleanupStarted, cleanupDone,
                 invoked, ranCnt, probeCnt,
                 phaseLog,
                 sigPc, git, cleanupLog, hc, cp, pass, vp, envCall, logFiles>>

\* lines 82-91: a disabled task (visited.add, then visited.delete)
EnterDisabled(t) ==
  /\ ctl = t /\ stack[t] # <<>> /\ Top(t).pc = "entry"
  /\ LET fr == Top(t)
         c  == tasks[fr.node] IN
     /\ ~InVisited(t, c.command)
     /\ IsDisabled(c)
     /\ skippedCommands' = Append(skippedCommands, c.command)
     /\ commandTimings' = SetTiming(fr)
     /\ visited' = [visited EXCEPT ![VisitedOf(t)] = (@ \cup {c.command}) \ {c.command}]
     /\ Return(t, fr, TRUE, "disabled")
  /\ UNCHANGED <<inputs, failedCommands, backgroundProcessesDetails, cacheWritten,
                 runLoc, exitCode, cleanupStarted, cleanupDone,
                 invoked, ranCnt, probeCnt,
                 phaseLog,
                 sigPc, git, cleanupLog, hc, cp, pass, vp, envCall, logFiles>>

\* lines 82, 93-96: the single silent probe of the task's own url is sent
EnterProbe(t) ==
  /\ ctl = t /\ stack[t] # <<>> /\ Top(t).pc = "entry"
  /\ LET fr == Top(t)
         c  == tasks[fr.node] IN
     /\ ~InVisited(t, c.command)
     /\ ~IsDisabled(c)
     /\ HasUrl(c)
     /\ visited' = [visited EXCEPT ![VisitedOf(t)] = @ \cup {c.command}]
     /\ stack' = SetTop(t, [fr EXCEPT !.pc = "preprobe", !.probe = 1, !.probed = @ + 1])
     /\ probeCnt' = [probeCnt EXCEPT ![fr.node] = @ + 1]
  /\ ctl' = Yield
  /\ UNCHANGED <<inputs, orch, backgroundProcessesDetails, cacheWritten, runLoc,
                 settled, exitCode, cleanupStarted, cleanupDone,
                 invoked, ranCnt, hist,
                 phaseLog,
                 sigPc, git, cleanupLog, hc, cp, pass, vp, envCall, logFiles>>

\* line 82, 112: no url, on to the dependencies
EnterDeps(t) ==
  /\ ctl = t /\ stack[t] # <<>> /\ Top(t).pc = "entry"
  /\ LET fr == Top(t)
         c  == tasks[fr.node] IN
     /\ ~InVisited(t, c.command)
     /\ ~IsDisabled(c)
     /\ ~HasUrl(c)
     /\ visited' = [visited EXCEPT ![VisitedOf(t)] = @ \cup {c.command}]
     /\ stack' = SetTop(t, [fr EXCEPT !.pc = "deps"])
  /\ UNCHANGED <<inputs, orch, backgroundProcessesDetails, cacheWritten, runLoc,
                 settled, ctl, exitCode, cleanupStarted, cleanupDone, ghost,
                 sigPc, git, cleanupLog, hc, cp, pass, vp, envCall, logFiles>>

\* ------------------------------------------------- HealthCheck.waitForUrl
\* what a probe can give: a status code, a connection error, the timeout
Responses == {"200", "204", "404", "error", "timeout"}

\* a check that accepts any 2xx status
Is200_Any2xx(res) == res \in {"200", "204"}
\* logger.js 223 (health-check.js 24): result.success && result.statusCode === 200
Is200(res) == res = "200"

\* a loop that waits after every failed probe, the last included
SleepsAfter_Always(attempt, maxAttempts) == TRUE
\* logger.js 231-233 (health-check.js 32-34): if (attempt < maxAttempts) wait
SleepsAfter(attempt, maxAttempts) == attempt < maxAttempts

\* a record that claims the running service as started by this script
AttachedRecord_Owned(c) ==
  [ command |-> c.command, url |-> TRUE, startedByScript |-> TRUE,
    kill_command |-> c.kill_command ]
\* ProcessManager.addBackgroundProcess, lib/index.js 37-46, as called at 99-105
AttachedRecord(c) ==
  [ command |-> c.command, url |-> TRUE, startedByScript |-> FALSE,
    kill_command |-> c.kill_command ]

\* lines 96-110: the answer of the pre-probe
PreProbeDone(t) ==
  /\ Turn /\ stack[t] # <<>> /\ Top(t).pc = "preprobe"
  /\ \E res \in Responses :
     LET fr == [Resumed(t) EXCEPT !.pre200 = BoolStr(res = "200")]
         c  == tasks[fr.node]
         urlAvailable == Is200(res) IN
       IF urlAvailable
       THEN /\ backgroundProcessesDetails' =
                 Append(backgroundProcessesDetails, AttachedRecord(c))
            /\ commandTimings' = SetTiming(fr)
            /\ visited' = [visited EXCEPT ![VisitedOf(t)] = @ \ {c.command}]
            /\ Return(t, fr, TRUE, "attached")
       ELSE /\ stack' = SetTop(t, [fr EXCEPT !.pc = "deps"])
            /\ ctl' = t
            /\ UNCHANGED <<backgroundProcessesDetails, commandTimings, visited,
                           settled, hist>>
  /\ UNCHANGED <<inputs, failedCommands, skippedCommands, cacheWritten, runLoc,
                 exitCode, cleanupStarted, cleanupDone, invoked, ranCnt, probeCnt,
                 phaseLog,
                 sigPc, git, cleanupLog, hc, cp, pass, vp, envCall, logFiles>>

\* a retry that runs the task's own command again
CmdOf_Same(c, attempt) == c.command
\* line 163: the command of this attempt
CmdOf(c, attempt) ==
  IF attempt = 1 THEN c.command
  ELSE IF c.retry_command # Null THEN c.retry_command ELSE c.command

\* lib/index.js 52: cmd.split(/\s+/)[0], the first word of the command
LogName(cmd) == IF cmd = "a x" THEN "a" ELSE cmd

\* lib/index.js 53 with orchestrator.js 164: LOG_FILE of an attempt; the tasks
\* of the model set neither log nor logFile
LogFile(c, attempt) == LogName(CmdOf(c, attempt))

\* a retry loop entered before the dependency loop has ended
DependenciesDone_Eager(fr, c) == TRUE
\* line 113: the for loop over the dependencies has ended
DependenciesDone(fr, c) == fr.depIdx > Len(c.dependencies)

\* lines 113-114: the next dependency is called with the shared visited set
CallDep(t) ==
  /\ ctl = t /\ stack[t] # <<>> /\ Top(t).pc = "deps"
  /\ LET fr == Top(t)
         c  == tasks[fr.node] IN
     /\ fr.depIdx <= Len(c.dependencies)
     /\ Len(stack[t]) < MaxDepth
     /\ LET d == c.dependencies[fr.depIdx] IN
        /\ stack' = [stack EXCEPT ![t] =
              Append([@ EXCEPT ![Len(@)] =
                        [fr EXCEPT !.pc = "awaitDep", !.called = @ + 1, !.ret = "none"]],
                     NewFrame(d))]
        /\ invoked' = [invoked EXCEPT ![d] = @ + 1]
  /\ UNCHANGED <<inputs, orch, backgroundProcessesDetails, cacheWritten, runLoc,
                 visited, settled, ctl, exitCode, cleanupStarted, cleanupDone,
                 ranCnt, probeCnt, hist,
                 phaseLog,
                 sigPc, git, cleanupLog, hc, cp, pass, vp, envCall, logFiles>>

\* lines 152-170: the dependencies are done, attempt 1 runs the command
StartCommand(t) ==
  /\ ctl = t /\ stack[t] # <<>> /\ Top(t).pc = "deps"
  /\ LET fr == Top(t)
         c  == tasks[fr.node] IN
     /\ DependenciesDone(fr, c)
     /\ stack' = SetTop(t, [fr EXCEPT !.pc = "cmd", !.attempt = 1, !.ran = @ + 1,
                                      !.cmds = Append(@, CmdOf(c, 1))])
     /\ ranCnt' = [ranCnt EXCEPT ![fr.node] = @ + 1]
     \* lib/index.js 61-63: isRetry is false, the log file is cleared
     /\ logFiles' = [logFiles EXCEPT ![LogFile(c, 1)] = {}]
  /\ ctl' = Yield
  /\ UNCHANGED <<inputs, orch, backgroundProcessesDetails, cacheWritten, runLoc,
                 visited, settled, exitCode, cleanupStarted, cleanupDone,
                 invoked, probeCnt, hist,
                 phaseLog,
                 sigPc, git, cleanupLog, hc, cp, pass, vp, envCall>>

\* lines 115-121: the dependency returned failure
DepFailed(t) ==
  /\ Turn /\ stack[t] # <<>> /\ Top(t).pc = "awaitDep"
  /\ LET fr == Top(t)
         c  == tasks[fr.node] IN
     /\ ~DependencySuccess(fr)
     /\ skippedCommands' = Append(skippedCommands, c.command)
     /\ commandTimings' = SetTiming(fr)
     /\ visited' = [visited EXCEPT ![VisitedOf(t)] = @ \ {c.command}]
     /\ Return(t, fr, FALSE, "depfail")
  /\ UNCHANGED <<inputs, failedCommands, backgroundProcessesDetails, cacheWritten,
                 runLoc, exitCode, cleanupStarted, cleanupDone,
                 invoked, ranCnt, probeCnt,
                 phaseLog,
                 sigPc, git, cleanupLog, hc, cp, pass, vp, envCall, logFiles>>

\* lines 123-129: the dependency succeeded and declares a url: poll it
DepSucceededWait(t) ==
  /\ Turn /\ stack[t] # <<>> /\ Top(t).pc = "awaitDep"
  /\ LET fr == Top(t)
         d  == tasks[fr.node].dependencies[fr.depIdx] IN
     /\ DependencySuccess(fr)
     /\ HasUrl(tasks[d])
     /\ stack' = SetTop(t, [fr EXCEPT !.pc = "depWait", !.probe = 1, !.probed = @ + 1])
     /\ probeCnt' = [probeCnt EXCEPT ![d] = @ + 1]
  /\ UNCHANGED <<inputs, orch, backgroundProcessesDetails, cacheWritten, runLoc,
                 visited, settled, ctl, exitCode, cleanupStarted, cleanupDone,
                 invoked, ranCnt, hist,
                 phaseLog,
                 sigPc, git, cleanupLog, hc, cp, pass, vp, envCall, logFiles>>

\* lines 115, 123, 149: the dependency succeeded, no url: next iteration
DepSucceededNext(t) ==
  /\ Turn /\ stack[t] # <<>> /\ Top(t).pc = "awaitDep"
  /\ LET fr == Top(t)
         d  == tasks[fr.node].dependencies[fr.depIdx] IN
     /\ DependencySuccess(fr)
     /\ ~HasUrl(tasks[d])
     /\ stack' = SetTop(t, [fr EXCEPT !.pc = "deps", !.depIdx = @ + 1,
                                       !.okDeps = IF fr.ret = "true" THEN @ + 1 ELSE @])
  /\ ctl' = t
  /\ UNCHANGED <<inputs, orch, backgroundProcessesDetails, cacheWritten, runLoc,
                 visited, settled, exitCode, cleanupStarted, cleanupDone, ghost,
                 sigPc, git, cleanupLog, hc, cp, pass, vp, envCall, logFiles>>

\* lines 125-138 with HealthCheck.waitForUrl, health-check.js 11-39: the
\* answer of one probe of the dependency's url
DepProbeDone(t) ==
  /\ Turn /\ stack[t] # <<>> /\ Top(t).pc = "depWait"
  /\ LET fr == Resumed(t)
         c  == tasks[fr.node]
         d  == tasks[c.dependencies[fr.depIdx]] IN
     \E res \in Responses : LET ok == Is200(res) IN
       CASE ok ->
              /\ stack' = SetTop(t, [fr EXCEPT !.pc = "deps", !.depIdx = @ + 1,
                                                !.okDeps = IF fr.ret = "true" THEN @ + 1 ELSE @])
              /\ ctl' = t
              /\ UNCHANGED <<skippedCommands, commandTimings, visited, settled, hist>>
         [] ~ok /\ SleepsAfter(fr.probe, d.health_check.max_attempts) ->
              /\ stack' = SetTop(t, [fr EXCEPT !.pc = "hcSleep"])
              /\ UNCHANGED <<skippedCommands, commandTimings, visited, settled, hist, ctl>>
         [] OTHER ->
              /\ skippedCommands' = Append(skippedCommands, c.command)
              /\ commandTimings' = SetTiming(fr)
              /\ visited' = [visited EXCEPT ![VisitedOf(t)] = @ \ {c.command}]
              /\ Return(t, fr, FALSE, "hcfail")
  /\ UNCHANGED <<inputs, failedCommands, backgroundProcessesDetails, cacheWritten,
                 runLoc, exitCode, cleanupStarted, cleanupDone,
                 invoked, ranCnt, probeCnt,
                 phaseLog,
                 sigPc, git, cleanupLog, hc, cp, pass, vp, envCall, logFiles>>

\* health-check.js 32-34, 11-14: the interval elapsed, the next probe is sent
ProbeInterval(t) ==
  /\ Turn /\ stack[t] # <<>> /\ Top(t).pc = "hcSleep"
  /\ LET fr == Resumed(t)
         d  == tasks[fr.node].dependencies[fr.depIdx] IN
     /\ stack' = SetTop(t, [fr EXCEPT !.pc = "depWait", !.probe = @ + 1, !.probed = @ + 1])
     /\ probeCnt' = [probeCnt EXCEPT ![d] = @ + 1]
  /\ UNCHANGED <<inputs, orch, backgroundProcessesDetails, cacheWritten, runLoc,
                 visited, settled, ctl, exitCode, cleanupStarted, cleanupDone,
                 invoked, ranCnt, hist,
                 phaseLog,
                 sigPc, git, cleanupLog, hc, cp, pass, vp, envCall, logFiles>>

\* lib/index.js 176-184: the record of a verified background process
OwnedRecord(c, cmd) ==
  [ command |-> cmd, url |-> c.health_check.url, startedByScript |-> TRUE,
    kill_command |-> c.kill_command ]

\* lib/index.js 227-243: what runCommand resolves with; the output of a
\* successful attempt is never read (lines 171-178)
Resolutions ==
  {[success |-> TRUE, output |-> "done"]} \cup
  {[success |-> FALSE, output |-> o] : o \in OutputClass}

\* lib/index.js 121-135, 211-225: the 'data' handlers append what the child
\* of task object n wrote to the log file of the attempt
Written(files, file, n) == [files EXCEPT ![file] = @ \cup {n}]

\* lib/index.js 227-243, 144-154, 190: whose output the resolved value holds:
\* the content of the log file, or '' for a verified background process
Captured(c, res, content) == IF c.background /\ res.success THEN {} ELSE content

\* lines 162-172 with ProcessManager.runCommand, lib/index.js 176-184 and
\* 227-243: runCommand resolved {success, output}; a background process that
\* was verified has been registered
RunCommandResolved(t) ==
  /\ Turn /\ stack[t] # <<>> /\ Top(t).pc = "cmd"
  /\ LET fr == Resumed(t)
         c  == tasks[fr.node] IN
     \E res \in Resolutions :
       LET written == Written(logFiles, LogFile(c, fr.attempt), fr.node) IN
       /\ stack' = SetTop(t, [fr EXCEPT !.pc = "cmdDone", !.success = res.success,
                                        !.output = res.output,
                                        !.src = Captured(c, res, written[LogFile(c, fr.attempt)])])
       /\ logFiles' = written
       /\ backgroundProcessesDetails' =
            IF res.success /\ c.background
            THEN Append(backgroundProcessesDetails, OwnedRecord(c, CmdOf(c, fr.attempt)))
            ELSE backgroundProcessesDetails
  /\ ctl' = t
  /\ UNCHANGED <<inputs, orch, cacheWritten, runLoc, visited, settled, exitCode,
                 cleanupStarted, cleanupDone, ghost,
                 sigPc, git, cleanupLog, hc, cp, pass, vp, envCall>>

\* a predicate whose verdict is not consulted
RetryVetoed_Never(c, output) == FALSE
\* line 180: should_retry && !should_retry(commandOutput)
RetryVetoed(c, output) == c.should_retry /\ ~ShouldRetryPred(output)

\* a success that leaves the failure records as they are
ClearFailure_Keep(command) == failedCommands
\* line 176: this.failedCommands.filter(cmd => cmd !== command)
ClearFailure(command) == SelectSeq(failedCommands, LAMBDA cmd : cmd # command)

\* lines 174-178, 208-210: the attempt succeeded
CmdSucceeded(t) ==
  /\ ctl = t /\ stack[t] # <<>> /\ Top(t).pc = "cmdDone"
  /\ LET fr == Top(t)
         c  == tasks[fr.node] IN
     /\ fr.success
     /\ failedCommands' = ClearFailure(c.command)
     /\ commandTimings' = SetTiming(fr)
     /\ visited' = [visited EXCEPT ![VisitedOf(t)] = @ \ {c.command}]
     /\ Return(t, fr, TRUE, "ok")
  /\ UNCHANGED <<inputs, skippedCommands, backgroundProcessesDetails, cacheWritten,
                 runLoc, exitCode, cleanupStarted, cleanupDone, invoked, ranCnt, probeCnt,
                 phaseLog,
                 sigPc, git, cleanupLog, hc, cp, pass, vp, envCall, logFiles>>

\* line 179: attempt < attempts
AttemptsRemain(fr, c) == fr.attempt < c.attempts

\* lines 179-188, 156-160: the attempt failed, more attempts remain and the
\* retry is not vetoed: wait 1000 ms
CmdRetry(t) ==
  /\ ctl = t /\ stack[t] # <<>> /\ Top(t).pc = "cmdDone"
  /\ LET fr == Top(t)
         c  == tasks[fr.node] IN
     /\ ~fr.success
     /\ AttemptsRemain(fr, c)
     /\ ~RetryVetoed(c, fr.output)
     /\ stack' = SetTop(t, [fr EXCEPT !.pc = "retryDelay", !.attempt = @ + 1,
                                      !.output = "none", !.src = {}])
  /\ ctl' = Yield
  /\ UNCHANGED <<inputs, orch, backgroundProcessesDetails, cacheWritten, runLoc,
                 visited, settled, exitCode, cleanupStarted, cleanupDone, ghost,
                 sigPc, git, cleanupLog, hc, cp, pass, vp, envCall, logFiles>>

\* lines 159-170: the delay elapsed, the retry runs
RetryDelayElapsed(t) ==
  /\ Turn /\ stack[t] # <<>> /\ Top(t).pc = "retryDelay"
  /\ LET fr == Resumed(t)
         c  == tasks[fr.node] IN
     /\ stack' = SetTop(t, [fr EXCEPT !.pc = "cmd", !.ran = @ + 1,
                                      !.cmds = Append(@, CmdOf(c, fr.attempt))])
     /\ ranCnt' = [ranCnt EXCEPT ![fr.node] = @ + 1]
  /\ UNCHANGED <<inputs, orch, backgroundProcessesDetails, cacheWritten, runLoc,
                 visited, settled, ctl, exitCode, cleanupStarted, cleanupDone,
                 invoked, probeCnt, hist,
                 phaseLog,
                 sigPc, git, cleanupLog, hc, cp, pass, vp, envCall, logFiles>>

\* lines 179-191: the failed attempt was the last one, or the retry was vetoed
FailureStands(c, fr) ==
  ~AttemptsRemain(fr, c) \/ RetryVetoed(c, fr.output)

\* lines 179-196, 208-210: the failure stands, foreground task
CmdFailed(t) ==
  /\ ctl = t /\ stack[t] # <<>> /\ Top(t).pc = "cmdDone"
  /\ LET fr == Top(t)
         c  == tasks[fr.node] IN
     /\ ~fr.success
     /\ FailureStands(c, fr)
     /\ ~c.background
     /\ failedCommands' = Append(failedCommands, c.command)
     /\ commandTimings' = SetTiming(fr)
     /\ visited' = [visited EXCEPT ![VisitedOf(t)] = @ \ {c.command}]
     /\ Return(t, fr, FALSE, "fail")
  /\ UNCHANGED <<inputs, skippedCommands, backgroundProcessesDetails, cacheWritten,
                 runLoc, exitCode, cleanupStarted, cleanupDone,
                 invoked, ranCnt, probeCnt,
                 phaseLog,
                 sigPc, git, cleanupLog, hc, cp, pass, vp, envCall, logFiles>>

\* lib/index.js 317-319: the records cleanupCommand(commandName) works on
CommandProcesses(commandName) ==
  SelectSeq(backgroundProcessesDetails, LAMBDA r : r.command = commandName)

\* a removal that empties the registry, as the full pass does
RemoveCommand_All(details, commandName) == <<>>
\* lib/index.js 340-342: the records of that name are filtered out
RemoveCommand(details, commandName) ==
  SelectSeq(details, LAMBDA r : r.command # commandName)

\* lines 194-201: the failure stands, background task: cleanupCommand(command);
\* lib/index.js 317-324: it takes the records of that name as they are now
CmdFailedBackground(t) ==
  /\ ctl = t /\ stack[t] # <<>> /\ Top(t).pc = "cmdDone"
  /\ LET fr == Top(t)
         c  == tasks[fr.node] IN
     /\ ~fr.success
     /\ FailureStands(c, fr)
     /\ c.background
     /\ failedCommands' = Append(failedCommands, c.command)
     /\ stack' = SetTop(t, [fr EXCEPT !.procs = CommandProcesses(c.command),
           !.pc = IF CommandProcesses(c.command) = <<>> THEN "scopedNoop"
                  ELSE "scopedCleanup"])
  /\ ctl' = Yield
  /\ UNCHANGED <<inputs, skippedCommands, commandTimings, backgroundProcessesDetails,
                 cacheWritten, runLoc, visited, settled, exitCode,
                 cleanupStarted, cleanupDone, ghost,
                 sigPc, git, cleanupLog, hc, cp, pass, vp, envCall, logFiles>>

\* lib/index.js 321-342 and lines 201-210: cleanupCommand settled (right away
\* when it found no record, else after the sequences, dropping the records
\* of that name)
ScopedCleanupSettled(t) ==
  /\ Turn /\ stack[t] # <<>> /\ Top(t).pc \in {"scopedNoop", "scopedCleanup"}
  /\ LET fr == Resumed(t)
         c  == tasks[fr.node] IN
     /\ \E log \in PassLogs(fr.procs) : cleanupLog' = cleanupLog \cup log
     /\ backgroundProcessesDetails' =
          IF fr.pc = "scopedCleanup"
          THEN RemoveCommand(backgroundProcessesDetails, c.command)
          ELSE backgroundProcessesDetails
     /\ commandTimings' = SetTiming(fr)
     /\ visited' = [visited EXCEPT ![VisitedOf(t)] = @ \ {c.command}]
     /\ Return(t, fr, FALSE, "fail")
  /\ UNCHANGED <<inputs, failedCommands, skippedCommands, cacheWritten, runLoc,
                 exitCode, cleanupStarted, cleanupDone, invoked, ranCnt, probeCnt,
                 phaseLog,
                 sigPc, git, hc, cp, pass, vp, envCall, logFiles>>

\* ------------------------------------------------------ the specification
Next ==
  \/ ShouldSkipResolved
  \/ PhaseSkipBeforeStart
  \/ PhaseSkipOptional
  \/ PhaseSkipAfterFailure
  \/ PhaseStart
  \/ PhasesDone
  \/ Launch
  \/ TaskAwaited
  \/ AllSettled
  \/ BatchDone
  \/ StartPhaseNotFound
  \/ InvalidPhasesExit
  \/ ValidateThrows
  \/ FinalStatus
  \/ DelayElapsed
  \/ CleanupSettled
  \/ CacheUpdated
  \/ CatchCleanupSettled
  \/ \E t \in TopNodes :
       \/ EnterCycle(t)
       \/ EnterDisabled(t)
       \/ EnterProbe(t)
       \/ EnterDeps(t)
       \/ PreProbeDone(t)
       \/ CallDep(t)
       \/ StartCommand(t)
       \/ DepFailed(t)
       \/ DepSucceededWait(t)
       \/ DepSucceededNext(t)
       \/ DepProbeDone(t)
       \/ ProbeInterval(t)
       \/ RunCommandResolved(t)
       \/ CmdSucceeded(t)
       \/ CmdRetry(t)
       \/ RetryDelayElapsed(t)
       \/ CmdFailed(t)
       \/ CmdFailedBackground(t)
       \/ ScopedCleanupSettled(t)

Spec == Init /\ [][Next]_vars

TypeOK ==
  /\ ctl \in {Idle, Main} \cup TopNodes
  /\ exitCode \in {-1, 0, 1}
  /\ \A t \in TopNodes : settled[t] \in {"idle", "pending", "true", "false"}

\* the events the environment owes the program happen: a child exits, a probe
\* answers, a timer fires, a settled promise resumes its awaiter
FairSpec == Spec /\ WF_vars(Next)

\* ------------------------------------------------------------ the claims
PhaseCount == Len(config.phases)
PhaseNames == {config.phases[i].name : i \in 1..PhaseCount}
PhaseTasks(i) == SeqToSet(config.phases[i].parallel)
NeverInvoked(n) == invoked[n] = 0 /\ ranCnt[n] = 0 /\ probeCnt[n] = 0
Recorded == Len(failedCommands) > 0 \/ Len(skippedCommands) > 0
Exited == runPc = "exited"
OwnedLeft ==
  \E k \in 1..Len(backgroundProcessesDetails) : backgroundProcessesDetails[k].startedByScript

\* C1: when a task of an executed phase returned failure, the phase is marked
\* failed once it completes, and every task of every later phase is never
\* invoked (no call, no probe, no runCommand) and, once the loop has passed
\* that phase, is recorded skipped with duration 0.
C1_FailedPhaseSkipsTheRest ==
  \A i \in 1..PhaseCount :
    (phaseLog[i] = "executed" /\ \E m \in PhaseTasks(i) : settled[m] = "false") =>
      /\ phaseIdx > i => phaseFailed
      /\ \A j \in (i + 1)..PhaseCount : \A n \in PhaseTasks(j) :
           /\ NeverInvoked(n)
           /\ phaseIdx > j =>
                /\ tasks[n].command \in SeqToSet(skippedCommands)
                /\ commandTimings[tasks[n].command] = 0

\* one of the two tasks of the first phase failed, the other succeeded, and
\* the run ended with the task of the last phase skipped
C1_Witness ==
  /\ Exited /\ exitCode = 1
  /\ phaseLog = <<"executed", "afterFailure", "afterFailure">>
  /\ settled[1] = "false" /\ settled[2] = "true"
  /\ NeverInvoked(3) /\ NeverInvoked(4)
  /\ "d" \in SeqToSet(skippedCommands)
  /\ commandTimings["d"] = 0

StartPhaseInvalid == ~config.isArray /\ startPhase # Null /\ startPhase \notin PhaseNames
AllowListInvalid == ~config.isArray /\ ~phases.isNull /\ ~(phases.list \subseteq PhaseNames)
ValidationThrows == config.isArray /\ (startPhase # Null \/ ~phases.isNull)

\* C2 (as stated): at exit the code is 1 if and only if some task is recorded
\* failed or skipped, and 0 otherwise.
C2_ExitOneIffRecorded ==
  Exited => (exitCode = 1 <=> Recorded) /\ (exitCode = 0 <=> ~Recorded)

\* C2 (amended): a recorded failed or skipped task makes the exit code 1; the
\* exit code is 0 exactly when the git cache skipped the run, or when no task
\* is recorded failed or skipped, no top-level call returned failure, the
\* start phase and the allow-list name existing phases and the validation
\* raised no error.
C2_ExitCode ==
  Exited =>
    /\ exitCode \in {0, 1}
    /\ Recorded => exitCode = 1
    /\ exitCode = 0 <=>
         \/ shouldSkip = "true"
         \/ /\ ~Recorded
            /\ \A t \in TopNodes : settled[t] # "false"
            /\ ~StartPhaseInvalid /\ ~AllowListInvalid /\ ~ValidationThrows

\* a run whose only recorded task is a skipped one (a disabled task) exits 1
C2_Witness ==
  /\ Exited /\ exitCode = 1 /\ shouldSkip = "false"
  /\ failedCommands = <<>> /\ Len(skippedCommands) = 1
  /\ \A t \in TopNodes : settled[t] = "true"

\* C3: when the process exits after a task was invoked, a full cleanup pass
\* has been started and has settled, and no owned record is in the registry.
C3_CleanupBeforeEveryExit ==
  (Exited /\ \E n \in Nodes : invoked[n] > 0) =>
    /\ cleanupStarted > 0 /\ cleanupDone = cleanupStarted
    /\ ~OwnedLeft

\* C4: the tasks of an optional phase are invoked only when an allow-list was
\* supplied and holds the phase's name.
C4_OptionalOnlyWhenRequested ==
  \A i \in 1..PhaseCount :
    (config.phases[i].optional /\ (phases.isNull \/ config.phases[i].name \notin phases.list)) =>
      \A n \in PhaseTasks(i) : NeverInvoked(n)

\* C5 (as stated): when an optional phase was skipped because it was not
\* requested and no executed task failed, the process exits with 0 (the path
\* on which the cache is updated).
C5_OptionalSkipIsSuccess ==
  (/\ Exited
   /\ \E i \in 1..PhaseCount : phaseLog[i] = "optional"
   /\ failedCommands = <<>>
   /\ \A t \in TopNodes : settled[t] # "false") => exitCode = 0

\* C5 (amended): skipping an optional phase that was not requested is not a
\* phase failure, but it is not a success of the run either: its tasks are
\* never invoked and are recorded skipped with duration 0, the phases after it
\* are still executed when no executed task failed, and the process exits
\* with 1 without updating the cache.
C5_OptionalSkipCountsAsSkipped ==
  \A i \in 1..PhaseCount :
    phaseLog[i] = "optional" =>
      /\ \A n \in PhaseTasks(i) :
           /\ NeverInvoked(n)
           /\ tasks[n].command \in SeqToSet(skippedCommands)
           /\ commandTimings[tasks[n].command] = 0
      /\ (\A t \in TopNodes : settled[t] # "false") =>
           /\ ~phaseFailed
           /\ \A j \in (i + 1)..PhaseCount :
                (phaseIdx > j /\ ~config.phases[j].optional) => phaseLog[j] = "executed"
      /\ Exited => exitCode = 1 /\ ~cacheWritten

\* the optional second phase was skipped, the phases around it ran and every
\* executed task succeeded; the run still exits with 1
C5_Witness ==
  /\ Exited /\ exitCode = 1 /\ ~cacheWritten
  /\ phaseLog = <<"executed", "optional", "executed">>
  /\ failedCommands = <<>> /\ skippedCommands = <<"c">>
  /\ settled[1] = "true" /\ settled[2] = "true" /\ settled[4] = "true"
  /\ NeverInvoked(3)

\* the invocation on top of slot t is at the first line of executeCommand
AtEntry(t) == ctl = t /\ stack[t] # <<>> /\ Top(t).pc = "entry"
\* this step ends the invocation on top of slot t with the value v (given as
\* "true" or "false") and without any probe, dependency call or runCommand
ReturnsAtOnce(t, v) ==
  /\ Len(stack'[t]) = Len(stack[t]) - 1
  /\ IF Len(stack[t]) > 1
     THEN stack'[t][Len(stack'[t])].ret = v
     ELSE settled'[t] = v
  /\ invoked' = invoked /\ ranCnt' = ranCnt /\ probeCnt' = probeCnt
  /\ Top(t).ran = 0 /\ Top(t).called = 0 /\ Top(t).probed = 0

\* C6: an invocation on a task whose name is already on the recursion path
\* returns failure in its first step, appends the name to failedCommands, and
\* makes no health probe, no dependency call and no runCommand call.
C6_CycleFailsImmediately ==
  [][\A t \in TopNodes :
       (AtEntry(t) /\ tasks[Top(t).node].command \in visited[t]) =>
         /\ ReturnsAtOnce(t, "false")
         /\ failedCommands' = Append(failedCommands, tasks[Top(t).node].command)
         /\ skippedCommands' = skippedCommands]_vars

\* the dependency f of a named a again: the inner invocation of a returned
\* failure to f without running anything
C6_Witness ==
  \E t \in TopNodes :
    /\ stack[t] # <<>> /\ Top(t).pc = "awaitDep" /\ Top(t).ret = "false"
    /\ tasks[Top(t).node].dependencies[Top(t).depIdx] = t
    /\ tasks[t].command \in visited[t]
    /\ tasks[t].command \in SeqToSet(failedCommands)
    /\ ranCnt[t] = 0

\* C7: every top-level call of executeCommand that was started returns, also
\* when the dependency references form a cycle: from some point on no
\* top-level call is pending any more.
C7_TopLevelCallReturns ==
  <>[](\A t \in TopNodes : settled[t] # "pending")

\* the top-level call on a returned although f, a dependency of a, depends on a
C7_Witness ==
  /\ tasks[6].dependencies = <<1>>
  /\ settled[1] \in {"true", "false"}
  /\ invoked[1] = 2 /\ invoked[6] = 1
  /\ stack[1] = <<>>

\* C8 (as stated): an invocation on a disabled task returns success in its
\* first step, appends the name to skippedCommands and not to failedCommands,
\* and makes no health probe, no dependency call and no runCommand call.
C8_DisabledAlwaysSucceeds ==
  [][\A t \in TopNodes :
       (AtEntry(t) /\ tasks[Top(t).node].status = "disabled") =>
         /\ ReturnsAtOnce(t, "true")
         /\ skippedCommands' = Append(skippedCommands, tasks[Top(t).node].command)
         /\ failedCommands' = failedCommands]_vars

\* C8 (amended): the same, for a disabled task whose name is not already on
\* the recursion path.
C8_DisabledOffPathSucceeds ==
  [][\A t \in TopNodes :
       (/\ AtEntry(t)
        /\ tasks[Top(t).node].status = "disabled"
        /\ tasks[Top(t).node].command \notin visited[t]) =>
         /\ ReturnsAtOnce(t, "true")
         /\ skippedCommands' = Append(skippedCommands, tasks[Top(t).node].command)
         /\ failedCommands' = failedCommands]_vars

\* the disabled top-level task b returned success, is recorded skipped and
\* nothing was run or probed for it
C8_Witness ==
  /\ tasks[2].status = "disabled"
  /\ settled[2] = "true"
  /\ "b" \in SeqToSet(skippedCommands) /\ "b" \notin SeqToSet(failedCommands)
  /\ ranCnt[2] = 0 /\ probeCnt[2] = 0

\* C9: no parent is aborted on account of a disabled dependency that returned
\* success, whatever else the dependency declares: an invocation that gave up
\* waiting for a dependency's url was not waiting for a disabled dependency.
C9_DisabledDependencyNeverBlocks ==
  \A r \in hist :
    r.path = "hcfail" =>
      tasks[tasks[r.node].dependencies[r.depIdx]].status # "disabled"

\* the invocation on top of slot t awaits a dependency that has returned
DepReturned(t) == Turn /\ stack[t] # <<>> /\ Top(t).pc = "awaitDep"
\* the invocation on top of slot t awaits the answer of the last probe its
\* dependency's health check allows
LastProbe(t) ==
  /\ Turn /\ stack[t] # <<>> /\ Top(t).pc = "depWait"
  /\ Top(t).probe >= tasks[tasks[Top(t).node].dependencies[Top(t).depIdx]].health_check.max_attempts
\* this step resumes the invocation on top of slot t with its next dependency
GoesOn(t) ==
  /\ Len(stack'[t]) = Len(stack[t])
  /\ stack'[t][Len(stack'[t])].pc = "deps"
  /\ stack'[t][Len(stack'[t])].depIdx = Top(t).depIdx + 1
\* this step ends the invocation on top of slot t as skipped with failure
Aborts(t) ==
  /\ Len(stack'[t]) = Len(stack[t]) - 1
  /\ IF Len(stack[t]) > 1
     THEN stack'[t][Len(stack'[t])].ret = "false"
     ELSE settled'[t] = "false"
  /\ skippedCommands' = Append(skippedCommands, tasks[Top(t).node].command)
  /\ failedCommands' = failedCommands
  /\ invoked' = invoked /\ ranCnt' = ranCnt /\ probeCnt' = probeCnt
  /\ Top(t).ran = 0
  /\ Top(t).called = Top(t).depIdx

\* C10: when a dependency returned failure, and when the last allowed probe of
\* a dependency's url did not find it ready, the parent's invocation ends in
\* that step: the parent is appended to skippedCommands and not to
\* failedCommands, failure is returned, no further dependency is called and
\* the parent's command has not run and does not run.
C10_DependencyFailureSkipsParent ==
  [][\A t \in TopNodes :
       /\ (DepReturned(t) /\ Top(t).ret = "false" /\ stack'[t] # stack[t]) => Aborts(t)
       /\ (LastProbe(t) /\ stack'[t] # stack[t]) => (GoesOn(t) \/ Aborts(t))]_vars

\* the first dependency of a ran and failed; a is recorded skipped, returned
\* failure, its second dependency f was never called and a never ran
C10_Witness ==
  /\ settled[1] = "false"
  /\ ranCnt[5] > 0 /\ tasks[5].command \in SeqToSet(failedCommands)
  /\ "a" \in SeqToSet(skippedCommands) /\ "a" \notin SeqToSet(failedCommands)
  /\ invoked[6] = 0 /\ ranCnt[1] = 0

\* C11: a task's command is spawned only when all its dependencies have been
\* called, each returned success and each that declares a url was polled
\* ready; the dependencies are called in declaration order, and at most one
\* of them is in flight: the one the task is waiting for.
C11_DependenciesBeforeCommand ==
  \A t \in TopNodes : \A k \in 1..Len(stack[t]) :
    LET fr == stack[t][k]
        deps == tasks[fr.node].dependencies IN
    /\ fr.ran > 0 =>
         /\ fr.called = Len(deps) /\ fr.okDeps = Len(deps)
         /\ k = Len(stack[t])
    /\ fr.called \in {fr.depIdx - 1, fr.depIdx}
    /\ fr.okDeps \in {fr.called - 1, fr.called}
    /\ k < Len(stack[t]) =>
         /\ fr.pc = "awaitDep" /\ fr.called = fr.depIdx /\ fr.okDeps = fr.called - 1
         /\ stack[t][k + 1].node = deps[fr.depIdx]

\* the command of a runs: its dependency e ran, succeeded and was polled
\* ready, then its dependency f ran and succeeded
C11_Witness ==
  /\ stack[1] # <<>> /\ Len(stack[1]) = 1
  /\ stack[1][1].pc = "cmd" /\ stack[1][1].ran = 1
  /\ stack[1][1].okDeps = 2
  /\ tasks[5].health_check.url /\ probeCnt[5] > 0
  /\ ranCnt[5] = 1 /\ ranCnt[6] = 1

\* runCommand has resolved for the invocation on top of slot t
CommandResolved(t) == ctl = t /\ stack[t] # <<>> /\ Top(t).pc = "cmdDone"
\* this step ends the invocation on top of slot t with the value v
ReturnsValue(t, v) ==
  /\ Len(stack'[t]) = Len(stack[t]) - 1
  /\ IF Len(stack[t]) > 1
     THEN stack'[t][Len(stack'[t])].ret = v
     ELSE settled'[t] = v

\* C12: when attempt k of an invocation succeeded, the invocation returns
\* success in its next step; runCommand has been invoked exactly k times by it
\* (k at most attempts), no further invocation is made, and the task's name
\* is not in failedCommands after the return.
C12_SuccessAfterKAttempts ==
  [][\A t \in TopNodes :
       (CommandResolved(t) /\ Top(t).success) =>
         /\ ReturnsValue(t, "true")
         /\ Top(t).ran = Top(t).attempt
         /\ Top(t).attempt <= tasks[Top(t).node].attempts
         /\ ranCnt' = ranCnt
         /\ tasks[Top(t).node].command \notin SeqToSet(failedCommands')]_vars

\* the first attempt of b failed, the second succeeded: b returned success
\* after two invocations of runCommand and is not recorded failed
C12_Witness ==
  /\ tasks[2].attempts = 2
  /\ settled[2] = "true" /\ ranCnt[2] = 2
  /\ "b" \notin SeqToSet(failedCommands)
  /\ \E r \in hist : r.node = 2 /\ r.result /\ r.ran = 2

\* the attempt that resolved for the invocation on top of slot t failed
AttemptFailed(t) == CommandResolved(t) /\ ~Top(t).success
\* this step makes the failure of the invocation on top of slot t final: the
\* name is appended to failedCommands, runCommand is not invoked again, and
\* the invocation returns failure (a background task first awaits the
\* cleanup of its own records)
FailsForGood(t) ==
  /\ failedCommands' = Append(failedCommands, tasks[Top(t).node].command)
  /\ ranCnt' = ranCnt
  /\ \/ ReturnsValue(t, "false")
     \/ /\ tasks[Top(t).node].background
        /\ Len(stack'[t]) = Len(stack[t])
        /\ stack'[t][Len(stack'[t])].pc \in {"scopedNoop", "scopedCleanup"}
\* the invocation on top of slot t awaits the cleanup of its own records
AwaitsScopedCleanup(t) ==
  stack[t] # <<>> /\ Top(t).pc \in {"scopedNoop", "scopedCleanup"}

\* C13: when attempt k < attempts failed and the task's should_retry returns
\* false on the captured output, no attempt k+1 is made, the task is recorded
\* failed and the invocation returns failure.
C13_VetoStopsRetrying ==
  [][\A t \in TopNodes :
       /\ (/\ AttemptFailed(t)
           /\ Top(t).attempt < tasks[Top(t).node].attempts
           /\ tasks[Top(t).node].should_retry
           /\ Top(t).output = "hard") => FailsForGood(t)
       /\ (AwaitsScopedCleanup(t) /\ stack'[t] # stack[t]) =>
            (ReturnsValue(t, "false") /\ ranCnt' = ranCnt /\ failedCommands' = failedCommands)]_vars

\* attempt 1 of 2 of b failed with output its should_retry rejects: b ran
\* once, is recorded failed and returned failure
C13_Witness ==
  /\ tasks[2].should_retry /\ tasks[2].attempts = 2
  /\ settled[2] = "false" /\ ranCnt[2] = 1
  /\ "b" \in SeqToSet(failedCommands)

\* the commands the attempts 1..n of task c have to run
ExpectedCmds(c, n) ==
  [i \in 1..n |-> IF i = 1 \/ c.retry_command = Null THEN c.command ELSE c.retry_command]

\* C14: a failed attempt that is not the last and is not vetoed is followed
\* by the next attempt; when the last attempt failed, runCommand has been
\* invoked exactly attempts times, attempt 1 with the task's command and each
\* later attempt with retry_command when provided (else the same command),
\* the task is recorded failed and the invocation returns failure.
C14_AllAttemptsFail ==
  [][\A t \in TopNodes :
       LET c == tasks[Top(t).node] IN
       /\ (/\ AttemptFailed(t)
           /\ Top(t).attempt < c.attempts
           /\ ~(c.should_retry /\ Top(t).output = "hard")) =>
            /\ Len(stack'[t]) = Len(stack[t])
            /\ stack'[t][Len(stack'[t])].pc = "retryDelay"
            /\ stack'[t][Len(stack'[t])].attempt = Top(t).attempt + 1
            /\ failedCommands' = failedCommands
       /\ (AttemptFailed(t) /\ Top(t).attempt >= c.attempts) =>
            /\ Top(t).ran = c.attempts
            /\ Top(t).cmds = ExpectedCmds(c, c.attempts)
            /\ FailsForGood(t)]_vars

\* both attempts of b failed, the second with its retry_command r: b ran
\* twice, is recorded failed and returned failure
C14_Witness ==
  /\ tasks[2].retry_command = "r" /\ tasks[2].attempts = 2
  /\ settled[2] = "false" /\ ranCnt[2] = 2
  /\ "b" \in SeqToSet(failedCommands)
  /\ \E r \in hist : r.node = 2 /\ ~r.result /\ r.cmds = <<"b", "r">>

\* ------------------------------------------------------------------ GitCache
\* a series of runs of the program in a repository that changes between the
\* runs; the tasks of a run are abstracted to their outcome

\* what the git actions leave alone
runRest == <<inputs, orch, backgroundProcessesDetails, runPc, phaseIdx, batch, idx,
             results, phaseFailed, startPhaseFound, calls, ctl, cleanupStarted,
             cleanupDone, ghost, cleanupLog, sigPc>>

BetweenRuns == gitPc \in {"idle", "exited"}

\* a commit (or a checkout of another commit) leaves a clean tree
RepoCommit ==
  /\ BetweenRuns
  /\ \E h \in Commits \ {head} : head' = h
  /\ tree' = "clean"
  /\ UNCHANGED <<runRest, shouldSkip, hasFailures, cacheWritten, exitCode,
                 revParseOk, statusOk, cacheFile, gitPc, currentHash, tested, hc, cp, pass, vp, envCall, logFiles>>

\* a tracked file is edited, or an untracked file appears
RepoEdit ==
  /\ BetweenRuns /\ tree = "clean"
  /\ tree' = "dirty"
  /\ UNCHANGED <<runRest, shouldSkip, hasFailures, cacheWritten, exitCode,
                 head, revParseOk, statusOk, cacheFile, gitPc, currentHash, tested, hc, cp, pass, vp, envCall, logFiles>>

\* the uncommitted changes are discarded or stashed
RepoRevert ==
  /\ BetweenRuns /\ tree = "dirty"
  /\ tree' = "clean"
  /\ UNCHANGED <<runRest, shouldSkip, hasFailures, cacheWritten, exitCode,
                 head, revParseOk, statusOk, cacheFile, gitPc, currentHash, tested, hc, cp, pass, vp, envCall, logFiles>>

\* git-cache.js 36-46: a git command starts or stops failing
GitAvailability ==
  /\ BetweenRuns
  /\ \E r, q \in BOOLEAN :
       /\ <<r, q>> # <<revParseOk, statusOk>>
       /\ revParseOk' = r /\ statusOk' = q
  /\ UNCHANGED <<runRest, shouldSkip, hasFailures, cacheWritten, exitCode,
                 head, tree, cacheFile, gitPc, currentHash, tested, hc, cp, pass, vp, envCall, logFiles>>

\* the log folder is removed, the cache file with it
CacheRemoved ==
  /\ BetweenRuns /\ cacheFile # Null
  /\ cacheFile' = Null
  /\ UNCHANGED <<runRest, shouldSkip, hasFailures, cacheWritten, exitCode,
                 head, tree, revParseOk, statusOk, gitPc, currentHash, tested, hc, cp, pass, vp, envCall, logFiles>>

\* git-cache.js 53-60: git rev-parse HEAD, null when it fails
GetCurrentCommitHash == IF revParseOk THEN head ELSE Null

\* git-cache.js 94-108: the content of the cache file, null without a file
ReadCachedHash == cacheFile

\* a status check that takes a failing query for "no changes"
HasGitChanges_FailOpen == IF statusOk THEN tree = "dirty" ELSE FALSE
\* git-cache.js 66-78: git status --porcelain printed something; a failing
\* query counts as changes
HasGitChanges == IF statusOk THEN tree = "dirty" ELSE TRUE

\* index.js 109 and orchestrator.js 241-244: a new process calls run(), which
\* awaits shouldSkipExecution()
GitRunStarts ==
  /\ BetweenRuns
  /\ gitPc' = "skipHash"
  /\ shouldSkip' = "unknown"
  /\ hasFailures' = FALSE
  /\ cacheWritten' = FALSE
  /\ exitCode' = -1
  /\ currentHash' = Null
  /\ UNCHANGED <<runRest, head, tree, revParseOk, statusOk, cacheFile, tested, hc, cp, pass, vp, envCall, logFiles>>

\* git-cache.js 141-160: the hash resolved; without a hash, without a cached
\* hash or with two different hashes the answer is false
SkipHashResolved ==
  /\ gitPc = "skipHash"
  /\ LET h == GetCurrentCommitHash IN
     /\ currentHash' = h
     /\ IF h = Null \/ ReadCachedHash = Null \/ h # ReadCachedHash
        THEN /\ shouldSkip' = "false"
             /\ gitPc' = "running"
        ELSE /\ gitPc' = "skipStatus"
             /\ UNCHANGED shouldSkip
  /\ UNCHANGED <<runRest, hasFailures, cacheWritten, exitCode,
                 head, tree, revParseOk, statusOk, cacheFile, tested, hc, cp, pass, vp, envCall, logFiles>>

\* git-cache.js 162-170 and orchestrator.js 244-248: the status resolved;
\* changes give false, else the answer is true and the process exits with 0
SkipStatusResolved ==
  /\ gitPc = "skipStatus"
  /\ IF HasGitChanges
     THEN /\ shouldSkip' = "false"
          /\ gitPc' = "running"
          /\ UNCHANGED exitCode
     ELSE /\ shouldSkip' = "true"
          /\ gitPc' = "exited"
          /\ exitCode' = 0
  /\ UNCHANGED <<runRest, hasFailures, cacheWritten,
                 head, tree, revParseOk, statusOk, cacheFile, currentHash, tested, hc, cp, pass, vp, envCall, logFiles>>

\* orchestrator.js 250-383: the tasks ran on the present commit and tree, the
\* final status is computed and the cleanup settled
GitRunExecuted ==
  /\ gitPc = "running"
  /\ \E failed \in BOOLEAN :
       /\ hasFailures' = failed
       /\ tested' = IF failed THEN tested ELSE tested \cup {<<head, tree>>}
  /\ gitPc' = "ran"
  /\ UNCHANGED <<runRest, shouldSkip, cacheWritten, exitCode,
                 head, tree, revParseOk, statusOk, cacheFile, currentHash, hc, cp, pass, vp, envCall, logFiles>>

\* orchestrator.js 385-397: updateCache() is awaited, or the process exits
GitRunFinished ==
  /\ gitPc = "ran"
  /\ IF UpdatesCache
     THEN /\ gitPc' = "updHash"
          /\ UNCHANGED exitCode
     ELSE /\ gitPc' = "exited"
          /\ exitCode' = ExitStatus
  /\ UNCHANGED <<runRest, shouldSkip, hasFailures, cacheWritten,
                 head, tree, revParseOk, statusOk, cacheFile, currentHash, tested, hc, cp, pass, vp, envCall, logFiles>>

\* git-cache.js 177-182 with 115-132, then orchestrator.js 391-397: the hash
\* resolved and is written (the write may fail); the process exits
UpdateHashResolved ==
  /\ gitPc = "updHash"
  /\ LET h == GetCurrentCommitHash IN
     /\ currentHash' = h
     /\ \E wrote \in BOOLEAN :
          IF h # Null /\ wrote
          THEN cacheFile' = h /\ cacheWritten' = TRUE
          ELSE UNCHANGED <<cacheFile, cacheWritten>>
  /\ gitPc' = "exited"
  /\ exitCode' = ExitStatus
  /\ UNCHANGED <<runRest, shouldSkip, hasFailures,
                 head, tree, revParseOk, statusOk, tested, hc, cp, pass, vp, envCall, logFiles>>

GitNext ==
  \/ RepoCommit
  \/ RepoEdit
  \/ RepoRevert
  \/ GitAvailability
  \/ CacheRemoved
  \/ GitRunStarts
  \/ SkipHashResolved
  \/ SkipStatusResolved
  \/ GitRunExecuted
  \/ GitRunFinished
  \/ UpdateHashResolved

\* the first run has not started: a fresh process with the default settings
GitSpecInit ==
  OrchInit({}) /\ GitInit /\ HcIdle /\ CpIdle /\ PassIdle /\ VpIdle /\ EnvIdle

GitSpec == GitSpecInit /\ [][GitNext]_vars

\* the answer of shouldSkipExecution is being given
SkipAnswered == shouldSkip = "unknown" /\ shouldSkip' # "unknown"

\* C16: shouldSkipExecution returns true if and only if the commit hash
\* resolves, a cached hash exists, the two are equal, and the status query
\* succeeds and reports no change; it returns false whenever a git query
\* fails.
C16_SkipIffUnchanged ==
  [][SkipAnswered =>
       /\ shouldSkip' = "true" <=>
            /\ revParseOk /\ cacheFile # Null /\ cacheFile = head
            /\ statusOk /\ tree = "clean"
       /\ (~revParseOk \/ ~statusOk) => shouldSkip' = "false"]_vars

\* a run was skipped, on the commit a former run had cached
C16_Witness ==
  /\ gitPc = "exited" /\ shouldSkip = "true" /\ exitCode = 0
  /\ currentHash = cacheFile /\ tested # {}

hcRest == <<inputs, orch, backgroundProcessesDetails, cacheWritten, runLoc, calls,
            ctl, exitCode, cleanupStarted, cleanupDone, ghost, cleanupLog, sigPc, git,
            pass, vp, envCall, logFiles>>

\* logger.js 217-221: waitForUrl({url, maxAttempts}) is called and sends its
\* first probe
HcInit ==
  /\ OrchInit({}) /\ GitInit /\ CpIdle /\ PassIdle /\ VpIdle /\ EnvIdle
  /\ \E m \in 1..(MaxProbes + 1) :
       hc = [pc |-> "probe", maxAttempts |-> m, attempt |-> 1, log |-> <<>>,
             ret |-> "none"]

\* logger.js 219, 236-238: the loop condition attempt <= maxAttempts; the next
\* probe is sent, or false is returned
HcLoop(h) ==
  IF h.attempt <= h.maxAttempts
  THEN [h EXCEPT !.pc = "probe"]
  ELSE [h EXCEPT !.pc = "done", !.ret = "false"]

\* logger.js 220-233: the probe was answered; 200 returns true, anything
\* else either starts the wait or ends the iteration
HcProbeAnswered ==
  /\ hc.pc = "probe"
  /\ \E res \in Responses :
       LET h == [hc EXCEPT !.log = Append(@, res)] IN
       hc' = IF Is200(res) THEN [h EXCEPT !.pc = "done", !.ret = "true"]
             ELSE IF SleepsAfter(h.attempt, h.maxAttempts) THEN [h EXCEPT !.pc = "sleep"]
             ELSE HcLoop([h EXCEPT !.attempt = @ + 1])
  /\ UNCHANGED <<hcRest, cp>>

\* logger.js 232: the interval elapsed; attempt++ and the loop goes on
HcIntervalElapsed ==
  /\ hc.pc = "sleep"
  /\ hc' = HcLoop([hc EXCEPT !.log = Append(@, "sleep"), !.attempt = @ + 1])
  /\ UNCHANGED <<hcRest, cp>>

HcNext ==
  \/ HcProbeAnswered
  \/ HcIntervalElapsed

HcSpec == HcInit /\ [][HcNext]_vars

\* ---------------------------------- ProcessManager.cleanupProcess, one call
\* everything but the call
cpRest == <<hcRest, hc>>

\* the records cleanupProcess is called with
CpRecords ==
  [command : {"b"}, url : BOOLEAN, startedByScript : BOOLEAN, kill_command : {Null, "k"}]

\* lib/index.js 345: cleanupProcess(record) is called
CpInit ==
  /\ OrchInit({}) /\ GitInit /\ HcIdle /\ PassIdle /\ VpIdle /\ EnvIdle
  /\ \E rec \in CpRecords :
       cp = [pc |-> "start", r |-> rec, ops |-> <<>>, polls |-> 0, killOk |-> "unknown",
             alive |-> "unknown", gone |-> "unknown", killErr |-> "unknown"]

\* lib/index.js 346-359: a record the script did not start returns at once;
\* a kill command is started with runCommand and awaited; otherwise the
\* signals follow
CpStart ==
  /\ cp.pc = "start"
  /\ cp' = IF Skipped(cp.r) THEN [cp EXCEPT !.pc = "done"]
           ELSE IF cp.r.kill_command # Null
                THEN [cp EXCEPT !.pc = "killCommand", !.ops = @ \o KillCommandStep(cp.r)]
                ELSE [cp EXCEPT !.pc = "probe"]
  /\ UNCHANGED cpRest

\* lib/index.js 359-368: the kill command settled; success returns, a failure
\* or a throw falls back to the signals
CpKillCommandSettled ==
  /\ cp.pc = "killCommand"
  /\ \E ok \in BOOLEAN :
       cp' = [cp EXCEPT !.killOk = BoolStr(ok),
                        !.pc = IF KillSucceeded(cp.r, ok) THEN "done" ELSE "probe"]
  /\ UNCHANGED cpRest

\* lib/index.js 375-402, 423-427: process.kill(pgid, 0); a process that is gone
\* returns; otherwise SIGTERM is sent, and when that throws the catch goes on
\* to the URL check
CpProbed ==
  /\ cp.pc = "probe"
  /\ \E alive \in BOOLEAN, sent \in BOOLEAN :
       LET c == [cp EXCEPT !.alive = BoolStr(alive), !.ops = Append(@, "probe")] IN
       cp' = IF AlreadyTerminated(alive) THEN [c EXCEPT !.pc = "done"]
             ELSE [c EXCEPT !.ops = Append(@, "SIGTERM"),
                            !.pc = IF sent THEN "wait" ELSE "url"]
  /\ UNCHANGED cpRest

\* a wait that has no ceiling
CeilingReached_Never(polls) == FALSE
\* lib/index.js 407-410: the 5000 ms timer fires once the interval ticks
\* before it have elapsed
CeilingReached(polls) == polls >= MaxPolls

\* lib/index.js 412-420: an interval tick probes the process; a process that
\* is gone ends the wait
CpPolled ==
  /\ cp.pc = "wait" /\ cp.polls < MaxPolls
  /\ \E gone \in BOOLEAN :
       cp' = IF gone THEN [cp EXCEPT !.polls = @ + 1, !.gone = "true", !.pc = "url"]
             ELSE [cp EXCEPT !.polls = @ + 1]
  /\ UNCHANGED cpRest

\* lib/index.js 407-410, 425-427: the ceiling is reached; the wait rejects and
\* the catch goes on to the URL check
CpTimedOut ==
  /\ cp.pc = "wait" /\ CeilingReached(cp.polls)
  /\ cp' = [cp EXCEPT !.gone = "false", !.pc = "url"]
  /\ UNCHANGED cpRest

\* lib/index.js 429-514: the URL check and the kill of the port's processes
CpPortChecked ==
  /\ cp.pc = "url"
  /\ \E urlUp \in BOOLEAN, portFound \in BOOLEAN :
       cp' = [cp EXCEPT !.ops = @ \o PortStep(cp.r, urlUp, portFound), !.pc = "final"]
  /\ UNCHANGED cpRest

\* a final kill that is left out once the wait saw the process disappear
FinalKill_IfStillThere(gone) == IF gone = "true" THEN <<>> ELSE <<"SIGKILL">>
\* lib/index.js 516-529: the final SIGKILL of the process group, whatever
\* happened before
FinalKill(gone) == <<"SIGKILL">>

\* lib/index.js 516-534: the final kill; ESRCH is ignored, another error is
\* logged, and the sequence is over
CpFinalKill ==
  /\ cp.pc = "final"
  /\ \E err \in {"none", "ESRCH", "EPERM"} :
       cp' = [cp EXCEPT !.ops = @ \o FinalKill(cp.gone),
                        !.killErr = IF FinalKill(cp.gone) = <<>> THEN "unknown" ELSE err,
                        !.pc = "done"]
  /\ UNCHANGED cpRest

CpNext ==
  \/ CpStart
  \/ CpKillCommandSettled
  \/ CpProbed
  \/ CpPolled
  \/ CpTimedOut
  \/ CpPortChecked
  \/ CpFinalKill

CpSpec == CpInit /\ [][CpNext]_vars

\* every awaited step of the sequence settles: the kill command, the timers,
\* the HTTP request and the search of the port
CpFairSpec == CpSpec /\ WF_vars(CpNext)

\* ------------------------- ProcessManager.cleanup / cleanupCommand, one pass
\* everything but the pass and the registry
passRest == <<inputs, orch, cacheWritten, runLoc, calls, ctl, exitCode, cleanupStarted,
              cleanupDone, ghost, cleanupLog, sigPc, git, hc, cp, vp, envCall, logFiles>>

\* the records the registry of the pass is filled with
PassRecords ==
  [command : {"b", "c"}, url : {FALSE}, startedByScript : BOOLEAN, kill_command : {Null}]

\* the ProcessManager with an empty registry
PassInit ==
  /\ OrchInit({}) /\ GitInit /\ HcIdle /\ CpIdle /\ VpIdle /\ EnvIdle
  /\ pass = [pc |-> "open", kind |-> "none", name |-> Null, procs |-> <<>>, state |-> <<>>]

\* lib/index.js 37-46, 175-184: a record is pushed, before a pass or while
\* one is waiting for its sequences
PassRegister ==
  /\ pass.pc \in {"open", "running"}
  /\ Len(backgroundProcessesDetails) < MaxRecords
  /\ \E rec \in PassRecords :
       backgroundProcessesDetails' = Append(backgroundProcessesDetails, rec)
  /\ UNCHANGED <<pass, passRest>>

\* the sequences of the records procs have been started
Started(kind, name, procs) ==
  [pc |-> "running", kind |-> kind, name |-> name, procs |-> procs,
   state |-> [i \in 1..Len(procs) |-> "pending"]]

\* lib/index.js 287-303: cleanup() starts a sequence for every record
PassCleanupCalled ==
  /\ pass.pc = "open"
  /\ pass' = Started("full", Null, backgroundProcessesDetails)
  /\ UNCHANGED <<backgroundProcessesDetails, passRest>>

\* lib/index.js 313-333: cleanupCommand(commandName) returns when no record
\* has that name, else starts a sequence for each of them
PassCleanupCommandCalled ==
  /\ pass.pc = "open"
  /\ \E commandName \in {"b", "c"} :
       pass' = IF CommandProcesses(commandName) = <<>>
               THEN [pass EXCEPT !.pc = "done", !.kind = "scoped", !.name = commandName]
               ELSE Started("scoped", commandName, CommandProcesses(commandName))
  /\ UNCHANGED <<backgroundProcessesDetails, passRest>>

\* lib/index.js 299-303, 329-333: the promise of one sequence fulfils, or
\* rejects when an error escapes cleanupProcess
PassSequenceSettled ==
  /\ pass.pc \in {"running", "done"}
  /\ \E i \in 1..Len(pass.state), how \in {"fulfilled", "rejected"} :
       /\ pass.state[i] = "pending"
       /\ pass' = [pass EXCEPT !.state[i] = how]
  /\ UNCHANGED <<backgroundProcessesDetails, passRest>>

\* a pass that waits like Promise.all: over at the first rejection, which it
\* throws
PromiseAllSettled_All(state) ==
  [done  |-> \/ \A i \in 1..Len(state) : state[i] = "fulfilled"
             \/ \E i \in 1..Len(state) : state[i] = "rejected",
   threw |-> \E i \in 1..Len(state) : state[i] = "rejected"]
\* lib/index.js 305, 335: await Promise.allSettled(killPromises) goes on when
\* every promise has settled, and never throws
PromiseAllSettled(state) ==
  [done  |-> \A i \in 1..Len(state) : state[i] # "pending",
   threw |-> FALSE]

\* lib/index.js 305-310, 335-342: the wait is over; the registry is emptied,
\* or the records of the name are filtered out; an error thrown by the wait
\* skips that
PassSettled ==
  /\ pass.pc = "running"
  /\ PromiseAllSettled(pass.state).done
  /\ pass' = [pass EXCEPT !.pc = "done"]
  /\ backgroundProcessesDetails' =
       IF PromiseAllSettled(pass.state).threw THEN backgroundProcessesDetails
       ELSE IF pass.kind = "full" THEN <<>>
       ELSE RemoveCommand(backgroundProcessesDetails, pass.name)
  /\ UNCHANGED passRest

PassNext ==
  \/ PassRegister
  \/ PassCleanupCalled
  \/ PassCleanupCommandCalled
  \/ PassSequenceSettled
  \/ PassSettled

PassSpec == PassInit /\ [][PassNext]_vars

\* --------------------- ProcessManager.runCommand, background: one call
\* everything but the call and the registry
vpRest == <<inputs, orch, cacheWritten, runLoc, calls, ctl, exitCode, cleanupStarted,
            cleanupDone, ghost, cleanupLog, sigPc, git, hc, cp, pass, envCall, logFiles>>

\* lib/index.js 138: const maxAttempts = 5
VerifyAttempts == 5

\* lib/index.js 48: the arguments of a background call: the command of the
\* attempt, the task's health check and kill command
VpCalls ==
  [cmd : {"b", "r"}, healthCheck : [url : BOOLEAN], kill_command : {Null, "k"}]

\* lib/index.js 48, 100-136, 207: runCommand({cmd, background: true, ...}): the
\* child is spawned detached, or spawn fails and emits 'error'; verifyProcess()
\* is called either way
VpInit ==
  /\ OrchInit({}) /\ GitInit /\ HcIdle /\ CpIdle /\ PassIdle /\ EnvIdle
  /\ \E spawned \in BOOLEAN, call \in VpCalls :
       vp = [pc |-> "check", call |-> call,
             spawned |-> spawned, attempt |-> 1, exited |-> FALSE,
             exitCode |-> "none", probed |-> FALSE, regExit |-> "none",
             result |-> "none", output |-> "none"]

\* resolve(value): the first call settles the promise of runCommand
Resolve(v, success, output) ==
  IF v.result = "none"
  THEN [v EXCEPT !.result = IF success THEN "success" ELSE "failure", !.output = output]
  ELSE v

\* lib/index.js 102-106: the 'error' event of a child that could not be
\* spawned resolves failure with no output
VpSpawnError ==
  /\ ~vp.spawned /\ vp.result = "none"
  /\ vp' = Resolve(vp, FALSE, "empty")
  /\ UNCHANGED <<backgroundProcessesDetails, vpRest>>

\* lib/index.js 116-120: the 'exit' event: the child ended with a code, or by
\* a signal (code null)
VpChildExited ==
  /\ vp.pc \in {"check", "wait", "backoff"} /\ vp.spawned /\ ~vp.exited
  /\ \E code \in {"0", "1", "signal"} :
       vp' = [vp EXCEPT !.exited = TRUE, !.exitCode = code]
  /\ UNCHANGED <<backgroundProcessesDetails, vpRest>>

\* a check that lets every exit pass
ExitedWithError_Never(v) == FALSE
\* lib/index.js 143, 163: processExited && processExitCode !== 0
ExitedWithError(v) == v.exited /\ v.exitCode # "0"

\* lib/index.js 156: process.kill(processGroupId, 0) does not throw
ProbeOk(v) == v.spawned /\ ~v.exited

\* verifyProcess returns: the promise of runCommand is resolved with the value
Returned(v, success, output) == [Resolve(v, success, output) EXCEPT !.pc = "done"]

\* lib/index.js 140-160, 192-203: an attempt: the exit check, the probe; a
\* probe that throws ends the last attempt with failure, else the backoff
VpCheck ==
  /\ vp.pc = "check"
  /\ vp' = IF ExitedWithError(vp) THEN Returned(vp, FALSE, "log")
           ELSE IF ProbeOk(vp) THEN [vp EXCEPT !.pc = "wait", !.probed = TRUE]
           ELSE IF vp.attempt = VerifyAttempts THEN Returned(vp, FALSE, "empty")
           ELSE [vp EXCEPT !.pc = "backoff"]
  /\ UNCHANGED <<backgroundProcessesDetails, vpRest>>

\* lib/index.js 160-191: the 500 ms are over; the exit check again, then the
\* record is pushed and success returned
VpWaitElapsed ==
  /\ vp.pc = "wait"
  /\ IF ExitedWithError(vp)
     THEN /\ vp' = Returned(vp, FALSE, "log")
          /\ UNCHANGED backgroundProcessesDetails
     ELSE /\ vp' = Returned([vp EXCEPT !.regExit = vp.exitCode], TRUE, "empty")
          /\ backgroundProcessesDetails' =
               Append(backgroundProcessesDetails,
                      OwnedRecord([health_check |-> vp.call.healthCheck,
                                   kill_command |-> vp.call.kill_command],
                                  vp.call.cmd))
  /\ UNCHANGED vpRest

\* lib/index.js 140, 200-203: the backoff is over, the next attempt
VpBackoffElapsed ==
  /\ vp.pc = "backoff"
  /\ vp' = [vp EXCEPT !.pc = "check", !.attempt = @ + 1]
  /\ UNCHANGED <<backgroundProcessesDetails, vpRest>>

VpNext ==
  \/ VpSpawnError
  \/ VpChildExited
  \/ VpCheck
  \/ VpWaitElapsed
  \/ VpBackoffElapsed

VpSpec == VpInit /\ [][VpNext]_vars

\* ---------------------------------------------------------------------------
\* createIsolatedEnvironment (lib/index.js 253-285): one call
\* ---------------------------------------------------------------------------

envRest == <<inputs, orch, backgroundProcessesDetails, cacheWritten, runLoc, calls, ctl, exitCode, cleanupStarted,
             cleanupDone, ghost, cleanupLog, sigPc, git, hc, cp, pass, vp, logFiles>>

\* the variables the function reads or writes by name, and one other
EnvKeys == {"NODE_ENV", "PATH", "SCRIPTS_ORCHESTRATOR_COMMAND",
            "npm_lifecycle_event", "FOO"}

Undefined == [type |-> "undefined", text |-> ""]
Str(text) == [type |-> "string", text |-> text]
Num(text) == [type |-> "number", text |-> text]

\* String(value): the text of the value, as a string
String(value) == Str(value.text)

\* the inherited environment holds strings only; an override is a string or
\* a number
InheritedValues == {Undefined, Str(""), Str("inh")}
OverrideValues == {Undefined, Str("ovr"), Num("1")}

\* lib/index.js 258-271: the spread of the copy, then the standard variables
StandardEnv(baseEnv, command) ==
  [k \in EnvKeys |->
     CASE k = "NODE_ENV" ->
            IF baseEnv[k] \in {Undefined, Str("")} THEN Str("development")
            ELSE baseEnv[k]
       [] k = "SCRIPTS_ORCHESTRATOR_COMMAND" -> Str(command)
       [] OTHER -> baseEnv[k]]

\* lib/index.js 273-278: every entry of env is written over the standard ones
MergeOverrides(isolatedEnv, env) ==
  [k \in EnvKeys |-> IF env[k] = Undefined THEN isolatedEnv[k] ELSE String(env[k])]

\* lib/index.js 280-282: delete isolatedEnv.npm_lifecycle_event (and _script)
StripLifecycle(isolatedEnv) ==
  [k \in EnvKeys |-> IF k = "npm_lifecycle_event" THEN Undefined ELSE isolatedEnv[k]]

\* lib/index.js 253-285
CreateIsolatedEnvironment(baseEnv, command, env) ==
  StripLifecycle(MergeOverrides(StandardEnv(baseEnv, command), env))

\* lib/index.js 83: runCommand calls it with the command of the attempt and
\* the env of the task (an env of null has no entries)
EnvInit ==
  /\ OrchInit({}) /\ GitInit /\ HcIdle /\ CpIdle /\ PassIdle /\ VpIdle
  /\ \E baseEnv \in [EnvKeys -> InheritedValues], env \in [EnvKeys -> OverrideValues],
        command \in {"b", "r"} :
       envCall = [pc |-> "call", baseEnv |-> baseEnv, command |-> command,
                  env |-> env, options |-> [env |-> baseEnv]]

\* lib/index.js 83-93: options.env of spawn is the returned object
EnvCreated ==
  /\ envCall.pc = "call"
  /\ envCall' = [envCall EXCEPT
       !.pc = "spawn",
       !.options = [env |-> CreateIsolatedEnvironment(envCall.baseEnv, envCall.command,
                                                      envCall.env)]]
  /\ UNCHANGED envRest

EnvNext == EnvCreated

EnvSpec == EnvInit /\ [][EnvNext]_vars

\* -------------------------------------------------------------- handleSignal
\* a sequence that settles without waiting for a timer or a child process:
\* nothing to do (lib/index.js 346-351) or the process is already gone (375-381)
Immediate(log) == \A e \in log : e.ops \in {<<>>, <<"probe">>}

\* index.js 81-106: a signal, an uncaught exception or an unhandled rejection
\* is delivered between two callbacks; handleSignal calls cleanup(), which
\* settles at once when no sequence has to wait, and then process.exit(1)
SignalReceived ==
  /\ Turn /\ sigPc = "none"
  /\ cleanupStarted' = cleanupStarted + 1
  /\ \E log \in PassLogs(backgroundProcessesDetails) :
       /\ cleanupLog' = cleanupLog \cup log
       /\ IF Immediate(log)
          THEN /\ backgroundProcessesDetails' = <<>>
               /\ cleanupDone' = cleanupDone + 1
               /\ sigPc' = "done"
               /\ Exit(1)
          ELSE /\ sigPc' = "cleanup"
               /\ UNCHANGED <<backgroundProcessesDetails, cleanupDone, runPc,
                              exitCode, ctl>>
  /\ UNCHANGED <<inputs, orch, cacheWritten, shouldSkip, phaseIdx, batch, idx, results,
                 hasFailures, phaseFailed, startPhaseFound, calls, ghost, git, hc, cp, pass, vp, envCall, logFiles>>

\* index.js 84-88 with lib/index.js 305-307: the cleanup of the handler
\* settled, the registry is cleared; process.exit(1)
SignalCleanupSettled ==
  /\ Turn /\ sigPc = "cleanup"
  /\ backgroundProcessesDetails' = <<>>
  /\ cleanupDone' = cleanupDone + 1
  /\ sigPc' = "done"
  /\ Exit(1)
  /\ UNCHANGED <<inputs, orch, cacheWritten, shouldSkip, phaseIdx, batch, idx, results,
                 hasFailures, phaseFailed, startPhaseFound, calls, cleanupStarted,
                 ghost, cleanupLog, git, hc, cp, pass, vp, envCall, logFiles>>

\* the run, with a signal that may arrive at any turn
SigNext ==
  \/ Next
  \/ SignalReceived
  \/ SignalCleanupSettled

SigSpec == Init /\ [][SigNext]_vars

\* C18: on a signal, an uncaught exception or an unhandled rejection a full
\* cleanup pass is started at once and the process then exits with a
\* non-zero code; after such an event the process never exits with 0.
C18_SignalNeverExitsZero ==
  /\ sigPc # "none" => cleanupStarted > 0
  /\ (Exited /\ sigPc # "none") => exitCode # 0

\* C15: the commit hash is cached only at the end of a run in which no call
\* of executeCommand returned failure and no task is recorded failed or
\* skipped; the other runs leave the cache file as it was.
C15_CacheOnlyAfterCleanRun ==
  cacheWritten =>
    /\ ~Recorded
    /\ \A t \in TopNodes : settled[t] # "false"
    /\ \A h \in hist : h.result
    /\ runPc = "exited" /\ exitCode = 0

\* a run of four tasks, all successful, wrote the cache
C15_Witness ==
  /\ cacheWritten /\ Exited
  /\ \A t \in TopNodes : settled[t] = "true" /\ ranCnt[t] > 0

\* a record of the registry that this run did not start
Attached(r) == ~r.startedByScript

\* C19: for a record with startedByScript = false the cleanup runs no kill
\* command, probes and signals no process and kills no process by port; the
\* record is only dropped from the registry.
C19_AttachedRecordUntouched ==
  /\ \A e \in cleanupLog : ~e.startedByScript => e.ops = <<>>
  /\ \A e \in cleanupLog :
       ~e.startedByScript =>
         ~\E k \in 1..Len(backgroundProcessesDetails) :
            /\ Attached(backgroundProcessesDetails[k])
            /\ backgroundProcessesDetails[k].command = e.command

\* a full pass went over an attached record that has a kill command and a
\* URL, and emptied the registry
C19_Witness ==
  /\ \E e \in cleanupLog : ~e.startedByScript /\ e.kill_command # Null /\ e.url
  /\ cleanupDone > 0
  /\ backgroundProcessesDetails = <<>>

\* the start phase names a phase of the configuration
HasStartPhase == ~config.isArray /\ startPhase # Null /\ startPhase \in PhaseNames
StartIndex == CHOOSE i \in 1..PhaseCount : config.phases[i].name = startPhase
\* this step marks phase i as lying before the start phase
MarkedBeforeStart(i) == phaseLog[i] # "beforeStart" /\ phaseLog'[i] = "beforeStart"
\* every task of the phases before phase j has returned
EarlierPhasesOver(j) ==
  \A k \in 1..(j - 1) :
    /\ phaseLog[k] # "none"
    /\ \A m \in PhaseTasks(k) : settled[m] # "pending"

\* C20: with a start phase that names a phase, every task of each phase before
\* it is never invoked and is recorded skipped with duration 0 when the loop
\* passes its phase; the start phase and the phases after it are never
\* treated as preceding phases and are processed one after the other in
\* declared order.
C20_StartPhase ==
  /\ [](HasStartPhase =>
         /\ \A i \in 1..(StartIndex - 1) :
              /\ \A n \in PhaseTasks(i) : NeverInvoked(n)
              /\ phaseIdx > i =>
                   /\ phaseLog[i] = "beforeStart"
                   /\ \A n \in PhaseTasks(i) :
                        tasks[n].command \in SeqToSet(skippedCommands)
         /\ \A j \in StartIndex..PhaseCount :
              /\ phaseLog[j] # "beforeStart"
              /\ phaseIdx > j => phaseLog[j] # "none"
              /\ phaseLog[j] # "none" => EarlierPhasesOver(j)
              /\ \A n \in PhaseTasks(j) :
                   invoked[n] > 0 => phaseLog[j] = "executed")
  /\ [][\A i \in 1..PhaseCount :
          MarkedBeforeStart(i) =>
            \A n \in PhaseTasks(i) :
              /\ commandTimings'[tasks[n].command] = 0
              /\ tasks[n].command \in SeqToSet(skippedCommands')]_vars

\* a run that started at the second phase: the tasks of the first were
\* recorded skipped and never invoked, the second and third phases ran
C20_Witness ==
  /\ Exited /\ startPhase = "p2"
  /\ phaseLog = <<"beforeStart", "executed", "executed">>
  /\ NeverInvoked(1) /\ NeverInvoked(2)
  /\ skippedCommands = <<"a", "b">>
  /\ commandTimings["a"] = 0 /\ commandTimings["b"] = 0
  /\ settled[3] = "true" /\ settled[4] = "true"

\* C21: with a start phase that names no phase of the plan, a run that the
\* git cache did not skip invokes no task of any phase, does not update the
\* commit cache and exits with code 1.
C21_UnknownStartPhase ==
  StartPhaseInvalid =>
    /\ \A n \in Nodes : NeverInvoked(n)
    /\ \A i \in 1..PhaseCount : phaseLog[i] \in {"none", "beforeStart"}
    /\ ~cacheWritten
    /\ (Exited /\ shouldSkip = "false") => exitCode = 1

\* the run went over the three phases without invoking a task and exited
C21_Witness ==
  /\ StartPhaseInvalid /\ Exited /\ exitCode = 1 /\ shouldSkip = "false"
  /\ phaseLog = <<"beforeStart", "beforeStart", "beforeStart">>
  /\ \A n \in Nodes : NeverInvoked(n)
  /\ ~cacheWritten

\* the batches of the configuration: the legacy array, or one per phase
Batches ==
  IF config.isArray THEN <<config.array>>
  ELSE [i \in 1..PhaseCount |-> config.phases[i].parallel]
InFlight == {t \in TopNodes : settled[t] = "pending"}

\* C22: in sequential mode at most one top-level task is in flight, the
\* tasks of a phase are invoked in declared order, and after the first task
\* that returned failure no further task of that phase is invoked.
C22_SequentialMode ==
  sequential =>
    /\ Cardinality(InFlight) <= 1
    /\ \A b \in 1..Len(Batches) : \A k \in 2..Len(Batches[b]) :
         invoked[Batches[b][k]] > 0 => settled[Batches[b][k - 1]] = "true"
    /\ \A b \in 1..Len(Batches) : \A k \in 1..Len(Batches[b]) :
         settled[Batches[b][k]] = "false" =>
           \A m \in (k + 1)..Len(Batches[b]) : NeverInvoked(Batches[b][m])

\* a sequential run whose first task failed: the second task of the phase
\* was never invoked
C22_Witness ==
  /\ sequential /\ Exited
  /\ invoked[1] = 1 /\ settled[1] = "false" /\ ranCnt[1] > 0
  /\ NeverInvoked(2)

\* the top-level call of task m and everything below it is over
SubtreeOver(m) == settled[m] \in {"true", "false"} /\ stack[m] = <<>>

\* C23: in parallel mode no task of a later phase is invoked until every
\* task of the current phase, with its dependencies and retries, has settled.
C23_PhaseBarrier ==
  (~sequential /\ ~config.isArray) =>
    \A i \in 1..PhaseCount : \A j \in (i + 1)..PhaseCount :
      (\E n \in PhaseTasks(j) : invoked[n] > 0) =>
        \A m \in PhaseTasks(i) : invoked[m] > 0 => SubtreeOver(m)

\* the task of the second phase is in flight; in the first phase one task
\* went through its dependencies and the other through a retry
C23_Witness ==
  /\ ~sequential /\ ~config.isArray
  /\ settled[3] = "pending"
  /\ SubtreeOver(1) /\ invoked[5] > 0 /\ invoked[6] > 0
  /\ SubtreeOver(2) /\ ranCnt[2] = 2

\* run() has launched the whole batch and awaits it, or has its results
BatchLaunched == runPc \in {"awaitAll", "batchDone"}
\* this step settles the top-level call of task t with a failure
SettlesFalse(t) == settled[t] = "pending" /\ settled'[t] = "false"

\* C24: in parallel mode a failure neither prevents nor cancels the siblings:
\* every task of an executed phase is invoked, whatever the others did;
\* the step that settles a failure leaves the calls of the siblings as they
\* are; run() has the results only when every call has returned, each result
\* being the value its own call returned.
C24_SiblingsUnaffected ==
  /\ []((~sequential /\ BatchLaunched) =>
         /\ \A i \in 1..Len(batch) :
              invoked[batch[i]] > 0 /\ settled[batch[i]] # "idle"
         /\ runPc = "batchDone" =>
              /\ \A i \in 1..Len(batch) : SubtreeOver(batch[i])
              /\ Len(results) = Len(batch)
              /\ \A i \in 1..Len(batch) :
                   \E h \in hist :
                     /\ h.slot = batch[i] /\ h.node = batch[i]
                     /\ h.result = results[i]
                     /\ BoolStr(h.result) = settled[batch[i]])
  /\ [][~sequential =>
          \A t \in TopNodes : SettlesFalse(t) =>
            \A u \in TopNodes \ {t} :
              stack'[u] = stack[u] /\ settled'[u] = settled[u]]_vars

\* the first task of a phase failed and its sibling, which was still running
\* then, went on to succeed
C24_Witness ==
  /\ ~sequential /\ runPc = "batchDone" /\ batch = <<1, 2>>
  /\ results = <<FALSE, TRUE>>
  /\ ranCnt[1] > 0 /\ ranCnt[2] = 2

\* the probes of the call, in order, and the number of waits
ProbesOf(log) == SelectSeq(log, LAMBDA e : e # "sleep")
WaitsOf(log) == Len(SelectSeq(log, LAMBDA e : e = "sleep"))

\* C25: waitForUrl probes one at a time, returns true at the first probe
\* answered with status 200 without probing further, returns false after
\* exactly maxAttempts probes when none was answered with 200 (errors,
\* timeouts and other statuses are failed attempts), and waits the interval
\* only between two consecutive probes, never after the last one.
C25_WaitForUrl ==
  LET probes == ProbesOf(hc.log) IN
  /\ Len(probes) <= hc.maxAttempts
  /\ \A i \in 1..Len(hc.log) :
       /\ (i % 2 = 0) <=> (hc.log[i] = "sleep")
       /\ hc.log[i] = "200" => (i = Len(hc.log) /\ hc.ret = "true")
  /\ hc.ret = "true" <=> (hc.log # <<>> /\ hc.log[Len(hc.log)] = "200")
  /\ hc.ret = "false" <=>
       (Len(probes) = hc.maxAttempts /\ \A i \in 1..Len(probes) : probes[i] # "200")
  /\ hc.pc = "done" <=> hc.ret # "none"
  /\ hc.pc = "done" => WaitsOf(hc.log) = Len(probes) - 1
  /\ hc.pc = "probe" => WaitsOf(hc.log) = Len(probes)
  /\ hc.pc = "sleep" => WaitsOf(hc.log) = Len(probes) - 1

\* a call with three attempts: a 404, a timeout, then 200 at the third probe
C25_Witness ==
  /\ hc.pc = "done" /\ hc.ret = "true" /\ hc.maxAttempts = 3
  /\ hc.log = <<"404", "sleep", "timeout", "sleep", "200">>

\* the call of cleanupProcess is over / is for a record the script started
CpDone == cp.pc = "done"
CpOwned == cp.pc # "idle" /\ cp.r.startedByScript
CpSignals == {i \in 1..Len(cp.ops) : cp.ops[i] \in {"SIGTERM", "SIGKILL", "portKill"}}
CpFinalKills == {i \in 1..Len(cp.ops) : cp.ops[i] = "SIGKILL"}

\* the call, step by step, performs what CleanupProcess says for the answers
\* it got
CpAgrees ==
  CpDone => \E o \in CleanupOutcomes : cp.ops = CleanupProcess(cp.r, o)

\* C26: cleanup of an owned record without kill command whose process has
\* already exited is over after the initial liveness probe: no termination
\* signal, no forceful kill and no kill by port is attempted
C26_GoneOnlyProbed ==
  (CpOwned /\ cp.r.kill_command = Null /\ cp.alive = "false")
    => CpDone /\ cp.ops = <<"probe">> /\ CpSignals = {}

C26_Witness ==
  /\ CpOwned /\ cp.r.kill_command = Null /\ cp.r.url /\ cp.alive = "false"
  /\ CpDone /\ cp.ops = <<"probe">>

\* C28 as stated: every owned record whose kill command is absent or did not
\* succeed ends with the final forceful kill, whatever the liveness probe said
C28_FinalKillAlways ==
  (CpDone /\ CpOwned /\ cp.killOk # "true")
    => cp.ops # <<>> /\ cp.ops[Len(cp.ops)] = "SIGKILL"

\* C28: for every owned record whose kill command is absent or did not
\* succeed and whose process the liveness probe found, the sequence ends with
\* exactly one final forceful kill of the process group, whatever the wait
\* and the search of the port gave, and an error of that kill ends the
\* sequence like a success; a record whose process is gone gets no kill
C28_FinalKillWhenAlive ==
  /\ (CpDone /\ CpOwned /\ cp.killOk # "true" /\ cp.alive = "true")
       => /\ CpFinalKills = {Len(cp.ops)}
          /\ cp.killErr \in {"none", "ESRCH", "EPERM"}
  /\ (CpDone /\ CpOwned /\ cp.alive = "false") => CpFinalKills = {}

C28_Witness ==
  /\ CpDone /\ CpOwned /\ cp.r.kill_command # Null /\ cp.killOk = "false"
  /\ cp.alive = "true" /\ cp.gone = "true" /\ cp.killErr = "ESRCH"
  /\ CpFinalKills = {Len(cp.ops)}

\* C29: the kill command of an owned record runs before anything else; when
\* it succeeds the sequence is over and nothing was signalled, and when it
\* fails or throws the signals follow, the liveness probe first
C29_KillCommandFirst ==
  (CpOwned /\ cp.r.kill_command # Null /\ cp.pc # "start")
    => /\ cp.ops # <<>> /\ cp.ops[1] = "kill_command"
       /\ cp.pc = "killCommand" => cp.ops = <<"kill_command">>
       /\ cp.killOk = "true" => CpDone /\ cp.ops = <<"kill_command">>
       /\ cp.killOk = "false" =>
            \/ cp.pc = "probe" /\ cp.ops = <<"kill_command">>
            \/ Len(cp.ops) >= 2 /\ cp.ops[2] = "probe"

C29_Witness ==
  CpOwned /\ cp.killOk = "true" /\ CpDone /\ cp.ops = <<"kill_command">>

\* C30: the sequence of one record always completes; the wait after the
\* graceful signal counts no more interval ticks than fit under the ceiling,
\* and a process that is still there at the ceiling gets the forceful kill
C30_SequenceCompletes ==
  /\ <>CpDone
  /\ [](cp.polls <= MaxPolls)
  /\ []((CpDone /\ cp.gone = "false") => CpFinalKills = {Len(cp.ops)})

C30_Witness ==
  /\ CpDone /\ cp.gone = "false" /\ cp.polls = MaxPolls
  /\ CpFinalKills = {Len(cp.ops)}

\* the pre-probe of the invocation on top of slot t is answered in this step
PreProbeAnswered(t) ==
  stack[t] # <<>> /\ Top(t).pc = "preprobe" /\ stack'[t] # stack[t]

\* C27: when the single pre-probe of a task's url is answered with 200, the
\* invocation registers a record with startedByScript = false and returns
\* success in that step, without having called a dependency or runCommand;
\* any other answer registers nothing and goes on to the dependencies
C27_AttachOn200 ==
  /\ [](\A r \in hist :
         /\ r.pre200 = "true" <=> r.path = "attached"
         /\ r.pre200 = "true" =>
              /\ r.result /\ r.probed = 1
              /\ r.called = 0 /\ r.depIdx = 1 /\ r.ran = 0 /\ r.cmds = <<>>)
  /\ [][\A t \in TopNodes :
         PreProbeAnswered(t) =>
           LET c == tasks[Top(t).node] IN
           IF Len(stack'[t]) < Len(stack[t])
           THEN /\ \E r \in hist' : r.slot = t /\ r.node = Top(t).node /\ r.pre200 = "true"
                /\ backgroundProcessesDetails' =
                     Append(backgroundProcessesDetails,
                            [command |-> c.command, url |-> TRUE, startedByScript |-> FALSE,
                             kill_command |-> c.kill_command])
                /\ ReturnsValue(t, "true")
                /\ invoked' = invoked /\ ranCnt' = ranCnt
           ELSE /\ stack'[t][Len(stack'[t])].pre200 = "false"
                /\ stack'[t][Len(stack'[t])].pc = "deps"
                /\ backgroundProcessesDetails' = backgroundProcessesDetails]_vars

\* a, which has the dependencies e and f, found its url answering: it
\* returned success, neither dependency was invoked, nothing was run, and
\* the record is in the registry
C27_Witness ==
  /\ \E r \in hist : r.node = 1 /\ r.path = "attached" /\ r.pre200 = "true"
  /\ settled[1] = "true" /\ ranCnt[1] = 0
  /\ invoked[5] = 0 /\ invoked[6] = 0
  /\ \E k \in 1..Len(backgroundProcessesDetails) :
       /\ backgroundProcessesDetails[k].command = "a"
       /\ ~backgroundProcessesDetails[k].startedByScript

\* the names of the invocations of slot t that have passed the cycle check
OnPath(t) ==
  {tasks[stack[t][i].node].command :
     i \in {j \in 1..Len(stack[t]) : stack[t][j].pc # "entry"}}

\* C40: the visited set of a top-level call always holds exactly the names of
\* the invocations on its recursion stack, it is empty when the call has
\* returned, and two top-level calls never use the same set
C40_VisitedIsPath ==
  /\ \A t \in TopNodes :
       /\ visited[VisitedOf(t)] = OnPath(t)
       /\ stack[t] = <<>> => visited[VisitedOf(t)] = {}
  /\ \A t, u \in TopNodes : t # u => VisitedOf(t) # VisitedOf(u)

\* a cycle was detected below a, the call of a returned failure with an empty
\* set, while b, launched in the same batch, went through its own call
C40_Witness ==
  /\ \E r \in hist : r.slot = 1 /\ r.path = "cycle" /\ r.node # 1
  /\ settled[1] = "false" /\ visited[VisitedOf(1)] = {}
  /\ settled[2] # "idle"

\* C38: when the run has ended, the name of every invocation that ended
\* failed (a cycle, or a command whose attempts all failed) is in
\* failedCommands, whatever another invocation of that name did
C38_FailureNeverErased ==
  Exited =>
    \A r \in hist :
      r.path \in {"cycle", "fail"} =>
        tasks[r.node].command \in SeqToSet(failedCommands)

\* C37: a top-level task that the summary shows as successful was run to
\* success, or attached as already healthy, by its own invocation in this run
C37_ShownSuccessRan ==
  Summarized =>
    \A n \in TopNodes :
      SummaryStatus(tasks[n].command) = "success" =>
        \E r \in hist :
          r.slot = n /\ r.node = n /\ r.result /\ r.path \in {"ok", "attached"}

\* a background child of slot t has been spawned and is not registered yet:
\* runCommand is still verifying it
Unregistered(t) ==
  \E i \in 1..Len(stack[t]) :
    stack[t][i].pc = "cmd" /\ tasks[stack[t][i].node].background

\* the sequence of a record like r is among those of log
Processed(log, r) ==
  \E e \in log :
    e.command = r.command /\ e.startedByScript = r.startedByScript

\* C36: when the process exits after the cleanup pass of the signal handler,
\* no background child of this run is left spawned but unregistered, and the
\* pass drops no record from the registry whose sequence it has not run
C36_NothingLeftBehind ==
  /\ []((Exited /\ sigPc = "done") => \A t \in TopNodes : ~Unregistered(t))
  /\ [][(sigPc # "done" /\ sigPc' = "done") =>
          \A k \in 1..Len(backgroundProcessesDetails) :
            Processed(cleanupLog', backgroundProcessesDetails[k])]_vars

\* the scoped cleanup awaited by the invocation on top of slot t settles
ScopedSettles(t, pc) ==
  stack[t] # <<>> /\ Top(t).pc = pc /\ stack'[t] # stack[t]

\* C34: the scoped cleanup after the final failure of a background task runs
\* sequences only for the records that carry the task's name and removes
\* exactly the records of that name; the records of every other name, those
\* registered during the cleanup included, stay in the registry as they are
\* and get no sequence
C34_ScopedCleanup ==
  /\ [](\A t \in TopNodes : \A i \in 1..Len(stack[t]) :
          \A k \in 1..Len(stack[t][i].procs) :
            stack[t][i].procs[k].command = tasks[stack[t][i].node].command)
  /\ [][\A t \in TopNodes :
         LET name == tasks[Top(t).node].command IN
         /\ ScopedSettles(t, "scopedCleanup") =>
              /\ backgroundProcessesDetails' =
                   SelectSeq(backgroundProcessesDetails, LAMBDA r : r.command # name)
              /\ \A e \in cleanupLog' \ cleanupLog : e.command = name
         /\ ScopedSettles(t, "scopedNoop") =>
              /\ backgroundProcessesDetails' = backgroundProcessesDetails
              /\ cleanupLog' = cleanupLog]_vars

\* the second b failed for good and its scoped cleanup works on the record
\* of the first b, while the record of d is in the registry too
C34_Witness ==
  /\ stack[3] # <<>> /\ Top(3).pc = "scopedCleanup" /\ Len(Top(3).procs) = 1
  /\ \E k \in 1..Len(backgroundProcessesDetails) :
       backgroundProcessesDetails[k].command = "d"

\* C31: a pass of cleanup() or cleanupCommand() is over only when every
\* sequence it started has settled, whether fulfilled or rejected, and it
\* then clears the registry (cleanup) or removes the records of the name
\* (cleanupCommand), also when a sequence rejected
C31_PassIsolated ==
  /\ [](pass.pc = "done" => \A i \in 1..Len(pass.state) : pass.state[i] # "pending")
  /\ [][(pass.pc = "running" /\ pass'.pc = "done") =>
          backgroundProcessesDetails' =
            IF pass.kind = "full" THEN <<>>
            ELSE SelectSeq(backgroundProcessesDetails,
                           LAMBDA r : r.command # pass.name)]_vars

\* a full pass is over: one sequence rejected, another fulfilled, the
\* registry is empty
C31_Witness ==
  /\ pass.pc = "done" /\ pass.kind = "full"
  /\ \E i, j \in 1..Len(pass.state) :
       pass.state[i] = "rejected" /\ pass.state[j] = "fulfilled"
  /\ backgroundProcessesDetails = <<>>

\* C32: the registry gets an owned record only from a call whose probe found
\* the child alive and whose check after the wait found no exit with an
\* error; that call resolves success and pushes one record; a call that
\* resolves failure pushes none
C32_RegisteredAfterVerification ==
  /\ Len(backgroundProcessesDetails) <= 1
  /\ backgroundProcessesDetails # <<>> =>
       /\ vp.pc = "done" /\ vp.result = "success"
       /\ vp.probed /\ vp.regExit \in {"none", "0"}
       /\ backgroundProcessesDetails[1] =
            [command |-> vp.call.cmd, url |-> vp.call.healthCheck.url,
             startedByScript |-> TRUE, kill_command |-> vp.call.kill_command]
  /\ vp.result = "failure" => backgroundProcessesDetails = <<>>
  /\ (vp.pc = "done" /\ vp.result = "success") => Len(backgroundProcessesDetails) = 1

C32_Witness ==
  /\ vp.pc = "done" /\ vp.result = "success" /\ vp.probed /\ ~vp.exited
  /\ vp.call.kill_command = "k" /\ vp.call.healthCheck.url
  /\ Len(backgroundProcessesDetails) = 1

\* C33: a child that exited before verifyProcess returned, with whatever
\* code, makes runCommand resolve failure with the captured log and leaves
\* the registry empty
C33_EarlyExitFails ==
  (vp.pc = "done" /\ vp.exited) =>
    /\ vp.result = "failure" /\ vp.output = "log"
    /\ backgroundProcessesDetails = <<>>

LogUsers(file) ==
  {t \in TopNodes :
     /\ stack[t] # <<>> /\ Top(t).pc \in {"cmd", "cmdDone", "retryDelay"}
     /\ \E i \in 1..Len(Top(t).cmds) : LogName(Top(t).cmds[i]) = file}

\* C39: the output runCommand returned to a task was written by that task's
\* own attempts only, and a log file is cleared or appended to only while no
\* other running task uses it
C39_OwnLogFile ==
  /\ [](\A t \in TopNodes :
         (stack[t] # <<>> /\ Top(t).pc = "cmdDone") => Top(t).src \subseteq {Top(t).node})
  /\ [][\A file \in Names :
          logFiles'[file] # logFiles[file] => Cardinality(LogUsers(file)') <= 1]_vars

====
